---- MODULE Spec2Model ----
(***************************************************************************)
(* Feature-tree subsystem of Makistry: the FeatureTree model, the tree     *)
(* validator, the generator's dependency resolver and code emission, and   *)
(* the Firestore-backed storage operations.                                *)
(*                                                                         *)
(* A tree is a record                                                      *)
(*   nodes               function id -> node                               *)
(*   node_keys           iteration order of the nodes dict (insertion)     *)
(*   regeneration_order  sequence of ids                                   *)
(*   root_node_id, dirty, needs_full_regeneration                          *)
(* and a node is a record                                                  *)
(*   id, name, feature_type, parameters (sequence of [name, value]),       *)
(*   parent_references (sequence of feature ids), child_ids (sequence).    *)
(*                                                                         *)
(* Variables: tree is the in-memory tree under test and out the result of  *)
(* the last pure call on it; stored, history are the persisted tree and    *)
(* its operation log and last the outcome of the last storage call; code   *)
(* is a CadQuery script as a sequence of lines; regen is the position and  *)
(* the local state of a regeneration request in progress.                  *)
(***************************************************************************)
EXTENDS Integers, Sequences, FiniteSets, TLC

VARIABLES tree, out, stored, history, last, code, regen

vars == <<tree, out, stored, history, last, code, regen>>

\* ------------------------------------------------------------------ bounds
\* longest parent_references list of a node of a bare tree
MaxRefs == 2

\* longest parent_references list of a candidate handed to the validator
MaxOperands == 3

\* ids of the nodes of the trees under test
NodeIds == {"n1", "n2", "n3"}

\* the ids in the order in which nodes are created
IdSeq == <<"n1", "n2", "n3">>

\* Python's None
None == "None"

\* ------------------------------------------------------------ small helpers
Range(s) == {s[i] : i \in 1..Len(s)}

SeqsUpTo(S, n) == UNION {[1..k -> S] : k \in 0..n}

\* list.index(x) + 1, or 0 when x is absent
IndexOf(s, x) ==
    IF x \in Range(s) THEN CHOOSE i \in 1..Len(s) : s[i] = x /\ \A j \in 1..(i-1) : s[j] # x
    ELSE 0

\* list.remove(x): drops the first occurrence of x
RemoveFirst(s, x) ==
    LET i == IndexOf(s, x)
    IN IF i = 0 THEN s ELSE SubSeq(s, 1, i-1) \o SubSeq(s, i+1, Len(s))

\* ------------------------------------------------------------- data model
EmptyTree ==
    [nodes |-> <<>>, node_keys |-> <<>>, regeneration_order |-> <<>>,
     root_node_id |-> None, dirty |-> FALSE, needs_full_regeneration |-> FALSE]

FeatureNode(id, name, ft, params, refs) ==
    [id |-> id, name |-> name, feature_type |-> ft, parameters |-> params,
     parent_references |-> refs, child_ids |-> <<>>]

\* dict assignment d[k] = v: a new key goes last, an existing key keeps its place
DictSet(t, k, v) ==
    [t EXCEPT !.nodes = [x \in (DOMAIN t.nodes) \cup {k} |-> IF x = k THEN v ELSE t.nodes[x]],
              !.node_keys = IF k \in DOMAIN t.nodes THEN @ ELSE Append(@, k)]

\* FeatureTree.add_node
add_node(t, node, parent_id) ==
    LET t1 == [DictSet(t, node.id, node) EXCEPT !.regeneration_order = Append(@, node.id)]
        t2 == IF parent_id # None /\ parent_id \in DOMAIN t1.nodes
                 /\ node.id \notin Range(t1.nodes[parent_id].child_ids)
              THEN [t1 EXCEPT !.nodes[parent_id].child_ids = Append(@, node.id)]
              ELSE t1
    IN [t2 EXCEPT !.root_node_id = IF @ = None THEN node.id ELSE @]

\* FeatureTree.get_node_dependencies: returns [deps, visited]; visited is the
\* set shared by the whole recursion
RECURSIVE get_node_dependencies(_, _, _)
RECURSIVE DepsOverRefs(_, _, _, _, _)

\* variant: only the direct parents, without the recursive update
get_node_dependencies_direct(t, node_id, visited) ==
    IF node_id \notin DOMAIN t.nodes THEN [deps |-> {}, visited |-> visited]
    ELSE [deps |-> Range(t.nodes[node_id].parent_references) \cap DOMAIN t.nodes,
          visited |-> visited \cup {node_id}]

DepsOverRefs(t, refs, i, deps, visited) ==
    IF i > Len(refs) THEN [deps |-> deps, visited |-> visited]
    ELSE IF refs[i] \in DOMAIN t.nodes
         THEN LET r == get_node_dependencies(t, refs[i], visited)
              IN DepsOverRefs(t, refs, i+1, deps \cup {refs[i]} \cup r.deps, r.visited)
         ELSE DepsOverRefs(t, refs, i+1, deps, visited)

get_node_dependencies(t, node_id, visited) ==
    IF node_id \notin DOMAIN t.nodes THEN [deps |-> {}, visited |-> visited]
    ELSE IF node_id \in visited THEN [deps |-> {}, visited |-> visited]
    ELSE DepsOverRefs(t, t.nodes[node_id].parent_references, 1, {}, visited \cup {node_id})

\* FeatureTree.validate_tree: the list of errors, as records
CircularErrors(t) ==
    LET ks == t.node_keys
        F[i \in 0..Len(ks)] ==
            IF i = 0 THEN <<>>
            ELSE IF ks[i] \in get_node_dependencies(t, ks[i], {}).deps
                 THEN Append(F[i-1], [kind |-> "circular", node |-> ks[i]])
                 ELSE F[i-1]
    IN F[Len(ks)]

MissingRefErrorsOf(t, id) ==
    LET refs == t.nodes[id].parent_references
        F[i \in 0..Len(refs)] ==
            IF i = 0 THEN <<>>
            ELSE IF refs[i] \notin DOMAIN t.nodes
                 THEN Append(F[i-1], [kind |-> "missing_ref", node |-> id, ref |-> refs[i]])
                 ELSE F[i-1]
    IN F[Len(refs)]

MissingRefErrors(t) ==
    LET ks == t.node_keys
        F[i \in 0..Len(ks)] ==
            IF i = 0 THEN <<>> ELSE F[i-1] \o MissingRefErrorsOf(t, ks[i])
    IN F[Len(ks)]

validate_tree(t) ==
    CircularErrors(t) \o MissingRefErrors(t)
    \o (IF Range(t.regeneration_order) # DOMAIN t.nodes
        THEN <<[kind |-> "order_mismatch"]>> ELSE <<>>)

\* ------------------------------------------------- generator: the resolver
\* the (child, parent) pairs in the order the two nested loops visit them
EdgesOf(t, id) ==
    LET refs == t.nodes[id].parent_references
    IN [i \in 1..Len(refs) |-> [child |-> id, parent |-> refs[i]]]

EdgeSeq(t) ==
    LET ks == t.node_keys
        F[i \in 0..Len(ks)] == IF i = 0 THEN <<>> ELSE F[i-1] \o EdgesOf(t, ks[i])
    IN F[Len(ks)]

\* variant: each dependent listed once per parent, whatever the number of
\* references it holds to that parent
_build_dependency_graph_once(t) ==
    [p \in DOMAIN t.nodes |->
        SelectSeq(t.node_keys, LAMBDA n : p \in Range(t.nodes[n].parent_references))]

\* FeatureTreeCodeGenerator._build_dependency_graph: parent -> list of dependents
_build_dependency_graph(t) ==
    [p \in DOMAIN t.nodes |->
        LET es == SelectSeq(EdgeSeq(t), LAMBDA e : e.parent = p)
        IN [i \in 1..Len(es) |-> es[i].child]]

\* in-degree of every node: its references to existing nodes, with multiplicity
InDegree(t) ==
    [n \in DOMAIN t.nodes |->
        Cardinality({i \in 1..Len(t.nodes[n].parent_references) :
                        t.nodes[n].parent_references[i] \in DOMAIN t.nodes})]

\* the inner for loop of the while: decrement each dependent, enqueue at zero
RECURSIVE Relax(_, _, _, _)
Relax(deps, i, queue, deg) ==
    IF i > Len(deps) THEN [queue |-> queue, deg |-> deg]
    ELSE LET d == deps[i]
             deg1 == [deg EXCEPT ![d] = @ - 1]
         IN Relax(deps, i+1, IF deg1[d] = 0 THEN Append(queue, d) ELSE queue, deg1)

RECURSIVE KahnLoop(_, _, _, _)
KahnLoop(graph, queue, order, deg) ==
    IF queue = <<>> THEN order
    ELSE LET current == Head(queue)
             r == Relax(graph[current], 1, Tail(queue), deg)
         IN KahnLoop(graph, r.queue, Append(order, current), r.deg)

\* variant: the stored regeneration order is used as it is
_resolve_dependencies_unsorted(t, graph) ==
    [raised |-> None, order |-> t.regeneration_order]

\* variant: no fallback, the partial order is kept
_resolve_dependencies_nofallback(t, graph) ==
    LET deg == InDegree(t)
        queue == SelectSeq(t.node_keys, LAMBDA n : deg[n] = 0)
    IN [raised |-> None, order |-> KahnLoop(graph, queue, <<>>, deg)]

\* FeatureTreeCodeGenerator._resolve_dependencies: [raised, order]; raised is
\* the exception the call ends with (None: it returns)
_resolve_dependencies(t, graph) ==
    LET deg == InDegree(t)
        queue == SelectSeq(t.node_keys, LAMBDA n : deg[n] = 0)
        order == KahnLoop(graph, queue, <<>>, deg)
    IN IF Len(order) # Cardinality(DOMAIN t.nodes)
       THEN [raised |-> None, order |-> t.regeneration_order]
       ELSE [raised |-> None, order |-> order]

\* ------------------------------------------------ generator: code emission
\* A parameter value is [kind, text]: kind "num" (int/float) or "str"; text is
\* what str(value) gives.  A variable name is [base, n]: base, base_1, base_2..
\* An emitted expression is one of
\*   [kind |-> "var", var]              a node variable
\*   [kind |-> "face", var]             <var>.faces('>Z').workplane()
\*   [kind |-> "new_workplane"]         cq.Workplane()
\*   [kind |-> "unit_box"]              cq.Workplane().box(1, 1, 1)
\* and an argument is [form, value]: form "str" for f"{value}" / str(value),
\* "repr" for repr(value).
Num(text) == [kind |-> "num", text |-> text]
Str(text) == [kind |-> "str", text |-> text]

VarExpr(v) == [kind |-> "var", var |-> v]
NewWorkplane == [kind |-> "new_workplane"]
UnitBox == [kind |-> "unit_box"]
NoExpr == [kind |-> "none"]

\* "design_params" in node.id, for the ids of the model
DesignParamIds == {"p_design_params"}

IsDesignParamsSkip(node) ==
    node.feature_type = "sketch" /\ node.id \in DesignParamIds

\* FeatureTreeCodeGenerator._get_variable_name: first free name of the scheme
_get_variable_name(node, used) ==
    LET base == node.feature_type
        k == CHOOSE k \in 0..Cardinality(used) :
                /\ [base |-> base, n |-> k] \notin used
                /\ \A j \in 0..(k-1) : [base |-> base, n |-> j] \in used
    IN [base |-> base, n |-> k]

\* FeatureTreeCodeGenerator._get_param_value
_get_param_value(params, names, default) ==
    LET hits == {i \in 1..Len(names) : \E j \in 1..Len(params) : params[j].name = names[i]}
    IN IF hits = {} THEN default
       ELSE LET nm == names[CHOOSE i \in hits : \A h \in hits : i <= h]
                \* a dict built from the list keeps the last value of a name
                j == CHOOSE j \in 1..Len(params) :
                        params[j].name = nm /\ \A l \in (j+1)..Len(params) : params[l].name # nm
            IN params[j].value

\* FeatureTreeCodeGenerator._find_workplane_for_sketch; "KeyError" when the
\* workplane has no variable
_find_workplane_for_sketch(sketch_id, variables, t) ==
    IF sketch_id \in DOMAIN t.nodes /\ t.nodes[sketch_id].parent_references # <<>>
    THEN LET parent_id == t.nodes[sketch_id].parent_references[1]
         IN IF parent_id \in DOMAIN t.nodes /\ t.nodes[parent_id].feature_type = "workplane"
            THEN IF parent_id \in DOMAIN variables THEN VarExpr(variables[parent_id])
                 ELSE [kind |-> "KeyError"]
            ELSE NewWorkplane
    ELSE NewWorkplane

\* the backward scans of _get_base_variable over regeneration_order[0:node_index]
RECURSIVE SketchBaseScan(_, _, _)
SketchBaseScan(i, variables, t) ==
    IF i < 1 THEN NewWorkplane
    ELSE LET prev == t.regeneration_order[i]
         IN IF prev \in DOMAIN variables /\ prev \in DOMAIN t.nodes
            THEN IF t.nodes[prev].feature_type = "workplane" THEN VarExpr(variables[prev])
                 ELSE IF t.nodes[prev].feature_type \in {"box", "cylinder", "sphere", "extrude"}
                      THEN NewWorkplane
                      ELSE SketchBaseScan(i-1, variables, t)
            ELSE SketchBaseScan(i-1, variables, t)

RECURSIVE SolidBaseScan(_, _, _)
SolidBaseScan(i, variables, t) ==
    IF i < 1 THEN NewWorkplane
    ELSE LET prev == t.regeneration_order[i]
         IN IF prev \in DOMAIN variables /\ prev \in DOMAIN t.nodes
               /\ t.nodes[prev].feature_type # "sketch"
            THEN VarExpr(variables[prev])
            ELSE SolidBaseScan(i-1, variables, t)

\* FeatureTreeCodeGenerator._get_base_variable
_get_base_variable(node, variables, t) ==
    LET refs == node.parent_references
        byOrder ==
            LET idx == IndexOf(t.regeneration_order, node.id)
            IN IF idx > 1
               THEN IF node.feature_type = "sketch"
                    THEN SketchBaseScan(idx-1, variables, t)
                    ELSE SolidBaseScan(idx-1, variables, t)
               ELSE NewWorkplane
    IN IF refs # <<>> /\ refs[1] \in DOMAIN variables /\ refs[1] \in DOMAIN t.nodes
       THEN LET parent_id == refs[1]
                ptype == t.nodes[parent_id].feature_type
            IN IF node.feature_type = "sketch"
               THEN IF ptype = "workplane" THEN VarExpr(variables[parent_id])
                    ELSE IF ptype = "sketch"
                         THEN _find_workplane_for_sketch(parent_id, variables, t)
                         ELSE NewWorkplane
               ELSE IF ptype = "sketch" THEN VarExpr(variables[parent_id])
                    ELSE IF node.feature_type \in {"extrude", "revolve"}
                            /\ ptype \in {"extrude", "box", "cylinder", "sphere",
                                          "revolve", "loft", "sweep"}
                         THEN [kind |-> "face", var |-> variables[parent_id]]
                         ELSE VarExpr(variables[parent_id])
       ELSE byOrder

\* FeatureTreeCodeGenerator._get_reference_variable; "ValueError" when the
\* node's id is not in regeneration_order
_get_reference_variable(node, variables, t) ==
    LET refs == node.parent_references
    IN IF Len(refs) > 1 /\ refs[2] \in DOMAIN variables THEN VarExpr(variables[refs[2]])
       ELSE LET idx == IndexOf(t.regeneration_order, node.id)
                \* positions before the node, nearest first, holding a primitive
                found == SelectSeq([k \in 1..(idx-1) |-> t.regeneration_order[idx - k]],
                                   LAMBDA p : /\ p \in DOMAIN variables
                                              /\ p \in DOMAIN t.nodes
                                              /\ t.nodes[p].feature_type \in
                                                    {"box", "cylinder", "sphere"})
            IN IF idx = 0 THEN [kind |-> "ValueError"]
               ELSE IF Len(found) >= 2 THEN VarExpr(variables[found[2]])
               ELSE IF Len(found) >= 1 THEN VarExpr(variables[found[1]])
               ELSE UnitBox

\* the loop of the UNION / DIFFERENCE branches that swaps a fillet/chamfer
\* parent for that parent's first parent; returns [base, other]
RECURSIVE UnfilletOperands(_, _, _, _, _, _)
UnfilletOperands(node, i, base, other, variables, t) ==
    IF i > Len(node.parent_references) THEN [base |-> base, other |-> other]
    ELSE LET parent_id == node.parent_references[i]
             swap == /\ parent_id \in DOMAIN t.nodes
                     /\ t.nodes[parent_id].feature_type \in {"fillet", "chamfer"}
                     /\ t.nodes[parent_id].parent_references # <<>>
                     /\ t.nodes[parent_id].parent_references[1] \in DOMAIN variables
             orig == VarExpr(variables[t.nodes[parent_id].parent_references[1]])
         IN IF swap
            THEN IF i = 1 THEN UnfilletOperands(node, i+1, orig, other, variables, t)
                 ELSE UnfilletOperands(node, i+1, base, orig, variables, t)
            ELSE UnfilletOperands(node, i+1, base, other, variables, t)

StrArg(v) == [form |-> "str", kw |-> None, value |-> v]

\* the argument list of the generic branch
GenericArgs(node) ==
    IF node.feature_type = "sketch" THEN <<>>
    ELSE [i \in 1..Len(node.parameters) |->
            IF node.parameters[i].name \in {"arg_0", "arg_1", "arg_2"}
            THEN StrArg(node.parameters[i].value)
            ELSE [form |-> "repr", kw |-> node.parameters[i].name,
                  value |-> node.parameters[i].value]]

Assign(var, base, method, args, other) ==
    [kind |-> "assign", var |-> var, base |-> base, method |-> method,
     args |-> args, other |-> other]

ErrorLine == [kind |-> "error"]

\* FeatureTreeCodeGenerator._generate_node_code, with the try/except of the
\* caller: an exception gives the "# ERROR" comment line
_generate_node_code(node, variables, t) ==
    LET ft == node.feature_type
        var == variables[node.id]
        P(names, default) == StrArg(_get_param_value(node.parameters, names, default))
        base == _get_base_variable(node, variables, t)
        ref == _get_reference_variable(node, variables, t)
        ops == UnfilletOperands(node, 1, base, ref, variables, t)
    IN IF ft = "workplane"
       THEN [kind |-> "assign", var |-> var, base |-> NoExpr, method |-> "cq.Workplane",
             args |-> <<[form |-> "quoted", kw |-> None,
                         value |-> _get_param_value(node.parameters, <<"plane">>, Str("XY"))]>>,
             other |-> NoExpr]
       ELSE IF base.kind = "KeyError" THEN ErrorLine
       ELSE IF ft = "box"
       THEN Assign(var, base, "box",
                   <<P(<<"width", "arg_0">>, Num("1")), P(<<"height", "arg_1">>, Num("1")),
                     P(<<"depth", "arg_2">>, Num("1"))>>, NoExpr)
       ELSE IF ft = "cylinder"
       THEN Assign(var, base, "cylinder",
                   <<P(<<"radius", "arg_0">>, Num("1")), P(<<"height", "arg_1">>, Num("1"))>>,
                   NoExpr)
       ELSE IF ft = "sphere"
       THEN Assign(var, base, "sphere", <<P(<<"radius", "arg_0">>, Num("1"))>>, NoExpr)
       ELSE IF ft = "extrude"
       THEN Assign(var, base, "extrude", <<P(<<"distance", "arg_0">>, Num("1"))>>, NoExpr)
       ELSE IF ft = "revolve"
       THEN Assign(var, base, "revolve", <<P(<<"angle", "arg_0">>, Num("360"))>>, NoExpr)
       ELSE IF ft = "fillet"
       THEN Assign(var, base, "edges().fillet", <<P(<<"radius", "arg_0">>, Num("0.1"))>>, NoExpr)
       ELSE IF ft = "chamfer"
       THEN Assign(var, base, "edges().chamfer", <<P(<<"distance", "arg_0">>, Num("0.1"))>>, NoExpr)
       ELSE IF ft \in {"union", "difference"}
       THEN IF ref.kind = "ValueError" THEN ErrorLine
            ELSE Assign(var, ops.base, IF ft = "union" THEN "union" ELSE "cut", <<>>, ops.other)
       ELSE IF ft = "sketch"
       THEN Assign(var, base, "circle", <<P(<<"radius", "arg_0">>, Num("5"))>>, NoExpr)
       ELSE Assign(var, base, ft, GenericArgs(node), NoExpr)

\* FeatureTreeCodeGenerator._extract_design_parameters: the lines of the
\* "# Design parameters" block, for the first matching node
DesignParamLines(t) ==
    LET dps == SelectSeq(t.node_keys,
                         LAMBDA id : /\ t.nodes[id].feature_type = "sketch"
                                     /\ id \in DesignParamIds
                                     /\ t.nodes[id].name = "Design Parameters")
    IN IF dps = <<>> THEN <<>>
       ELSE LET ps == t.nodes[dps[1]].parameters
                \* dict: a name keeps the place of its first entry and the
                \* value of its last
                first == SelectSeq([i \in 1..Len(ps) |-> i],
                                   LAMBDA i : \A j \in 1..(i-1) : ps[j].name # ps[i].name)
                lastOf(nm) == CHOOSE j \in 1..Len(ps) :
                                 ps[j].name = nm /\ \A l \in (j+1)..Len(ps) : ps[l].name # nm
            IN [k \in 1..Len(first) |->
                  [kind |-> "param", var |-> [base |-> ps[first[k]].name, n |-> 0],
                   value |-> StrArg(ps[lastOf(ps[first[k]].name)].value)]]

\* the loop over resolved_order of generate_cadquery_code; st is
\* [used, variables, lines]
RECURSIVE EmitNodes(_, _, _, _)
EmitNodes(order, i, st, t) ==
    IF i > Len(order) THEN st
    ELSE LET node_id == order[i]
         IN IF node_id \notin DOMAIN t.nodes \/ IsDesignParamsSkip(t.nodes[node_id])
            THEN EmitNodes(order, i+1, st, t)
            ELSE LET node == t.nodes[node_id]
                     var == _get_variable_name(node, st.used)
                     variables == [x \in (DOMAIN st.variables) \cup {node_id} |->
                                      IF x = node_id THEN var ELSE st.variables[x]]
                     line == _generate_node_code(node, variables, t)
                 IN EmitNodes(order, i+1,
                              [used |-> st.used \cup {var}, variables |-> variables,
                               lines |-> Append(st.lines, [node |-> node_id] @@ line)], t)

PriorityTypes ==
    << {"union", "difference", "intersection"}, {"fillet", "chamfer"},
       {"extrude", "revolve", "loft", "sweep"}, {"box", "cylinder", "sphere", "cone"} >>

\* the last element of seq whose node type is in the first priority group
\* that has one; None when no group has one
PickByPriority(seq, t) ==
    LET hit(g) == {i \in 1..Len(seq) : seq[i] \in DOMAIN t.nodes
                                        /\ t.nodes[seq[i]].feature_type \in PriorityTypes[g]}
        groups == {g \in 1..Len(PriorityTypes) : hit(g) # {}}
    IN IF groups = {} THEN None
       ELSE LET g == CHOOSE g \in groups : \A h \in groups : g <= h
            IN seq[CHOOSE i \in hit(g) : \A j \in hit(g) : j <= i]

\* FeatureTreeCodeGenerator._find_result_variable
_find_result_variable(variables, t) ==
    LET assigned == SelectSeq(t.regeneration_order, LAMBDA id : id \in DOMAIN variables)
    IN IF assigned = <<>> THEN UnitBox
       ELSE IF PickByPriority(assigned, t) # None
            THEN VarExpr(variables[PickByPriority(assigned, t)])
            ELSE VarExpr(variables[assigned[Len(assigned)]])

\* variant: the leaves are not consulted, the result is chosen from all
\* emitted nodes
_find_result_variable_ignoring_leaves(variables, t, graph, order) ==
    _find_result_variable(variables, t)

\* FeatureTreeCodeGenerator._find_result_variable_with_dependencies
_find_result_variable_with_dependencies(variables, t, graph, order) ==
    LET leaf_nodes == SelectSeq(order,
                        LAMBDA id : /\ id \in DOMAIN variables
                                    /\ id \in DOMAIN graph
                                    /\ graph[id] = <<>>
                                    /\ id \in DOMAIN t.nodes
                                    /\ t.nodes[id].feature_type # "workplane")
    IN IF leaf_nodes = <<>> THEN _find_result_variable(variables, t)
       ELSE IF PickByPriority(leaf_nodes, t) # None
            THEN VarExpr(variables[PickByPriority(leaf_nodes, t)])
            ELSE VarExpr(variables[leaf_nodes[Len(leaf_nodes)]])

\* FeatureTreeCodeGenerator.generate_cadquery_code for a tree without global
\* parameters: [raised, lines]; the import line and blank lines are left out
generate_cadquery_code(t) ==
    LET graph == _build_dependency_graph(t)
        order == _resolve_dependencies(t, graph).order
        plines == DesignParamLines(t)
        st == EmitNodes(order, 1,
                        [used |-> {plines[i].var : i \in 1..Len(plines)},
                         variables |-> <<>>, lines |-> <<>>], t)
        result == _find_result_variable_with_dependencies(st.variables, t, graph, order)
    IN [raised |-> None,
        lines |-> plines \o st.lines \o <<[kind |-> "result", value |-> result]>>]

\* ------------------------------------------------------------- validator
\* FeatureTreeValidator.__init__: the tables
valid_parent_types ==
    [ft \in {"sketch", "extrude", "revolve", "box", "cylinder", "sphere",
             "fillet", "chamfer", "union", "difference"} |->
        CASE ft = "sketch" -> {"workplane", "box", "cylinder", "sphere", "extrude", "revolve"}
          [] ft \in {"extrude", "revolve"} -> {"sketch"}
          [] ft \in {"box", "cylinder", "sphere"} -> {"workplane"}
          [] ft \in {"fillet", "chamfer"} ->
                {"box", "cylinder", "sphere", "extrude", "revolve", "union", "difference"}
          [] ft \in {"union", "difference"} ->
                {"box", "cylinder", "sphere", "extrude", "revolve"}]

solid_types == {"box", "cylinder", "sphere", "extrude", "revolve", "union", "difference"}

surface_operation_types == {"fillet", "chamfer"}

boolean_operation_types == {"union", "difference"}

\* the tree object with the node put into nodes and regeneration_order
PutNode(t, new_node) ==
    [DictSet(t, new_node.id, new_node) EXCEPT !.regeneration_order = Append(@, new_node.id)]

\* variant: no copy, the node is put into the caller's tree
_create_temp_tree_with_node_alias(t, new_node) ==
    [temp |-> PutNode(t, new_node), tree |-> PutNode(t, new_node)]

\* FeatureTreeValidator._create_temp_tree_with_node: temp is the new tree
\* (copies of nodes and regeneration_order, with the node put in); tree is the
\* caller's tree after the call
_create_temp_tree_with_node(t, new_node) ==
    [temp |-> PutNode(t, new_node), tree |-> t]

\* FeatureTreeValidator._validate_parent_references
RefErrors(t, new_node) ==
    LET refs == new_node.parent_references
        ft == new_node.feature_type
        F[i \in 0..Len(refs)] ==
            IF i = 0 THEN <<>>
            ELSE IF refs[i] \notin DOMAIN t.nodes
                 THEN Append(F[i-1], [kind |-> "ref_missing", ref |-> refs[i]])
                 ELSE IF ft \in DOMAIN valid_parent_types
                         /\ t.nodes[refs[i]].feature_type \notin valid_parent_types[ft]
                      THEN Append(F[i-1], [kind |-> "invalid_parent_type",
                                           parent_type |-> t.nodes[refs[i]].feature_type])
                      ELSE F[i-1]
    IN F[Len(refs)]

\* variant: only the parent_id argument is checked, not the node's references
_validate_parent_references_argument_only(t, new_node, parent_id) ==
    IF parent_id # None /\ parent_id \notin DOMAIN t.nodes
    THEN <<[kind |-> "parent_missing"]>>
    ELSE IF parent_id = None THEN <<>>
    ELSE RefErrors(t, [new_node EXCEPT !.parent_references = <<parent_id>>])

_validate_parent_references(t, new_node, parent_id) ==
    IF parent_id # None /\ parent_id \notin DOMAIN t.nodes
    THEN <<[kind |-> "parent_missing"]>>
    ELSE RefErrors(t, new_node)

\* has_cycle of _validate_dependencies: [found, visited, rec_stack]
RECURSIVE has_cycle(_, _, _, _)
RECURSIVE HasCycleOverRefs(_, _, _, _, _, _)

HasCycleOverRefs(t, node_id, refs, i, visited, rec_stack) ==
    IF i > Len(refs)
    THEN [found |-> FALSE, visited |-> visited, rec_stack |-> rec_stack \ {node_id}]
    ELSE LET r == has_cycle(t, refs[i], visited, rec_stack)
         IN IF r.found THEN r
            ELSE HasCycleOverRefs(t, node_id, refs, i+1, r.visited, r.rec_stack)

has_cycle(t, node_id, visited, rec_stack) ==
    IF node_id \in rec_stack
    THEN [found |-> TRUE, visited |-> visited, rec_stack |-> rec_stack]
    ELSE IF node_id \in visited
    THEN [found |-> FALSE, visited |-> visited, rec_stack |-> rec_stack]
    ELSE HasCycleOverRefs(t, node_id,
                          IF node_id \in DOMAIN t.nodes
                          THEN t.nodes[node_id].parent_references ELSE <<>>,
                          1, visited \cup {node_id}, rec_stack \cup {node_id})

\* FeatureTreeValidator._validate_dependencies: [errors, tree]
_validate_dependencies(t, new_node) ==
    LET c == _create_temp_tree_with_node(t, new_node)
    IN [errors |-> IF has_cycle(c.temp, new_node.id, {}, {}).found
                   THEN <<[kind |-> "circular"]>> ELSE <<>>,
        tree |-> c.tree]

\* FeatureTreeValidator._validate_boolean_operation
_validate_boolean_operation(t, new_node) ==
    LET refs == new_node.parent_references
        solid_parents == {i \in 1..Len(refs) :
                            /\ refs[i] \in DOMAIN t.nodes
                            /\ t.nodes[refs[i]].feature_type \in solid_types}
    IN IF new_node.feature_type \notin boolean_operation_types THEN <<>>
       ELSE IF Cardinality(solid_parents) < 2
       THEN <<[kind |-> "needs_two_solids", found |-> Cardinality(solid_parents)]>>
       ELSE <<>>

\* traces_to_solid of _node_affects_result: [found, visited]; dependents is
\* the forward graph
RECURSIVE traces_to_solid(_, _, _, _)
RECURSIVE TraceOverDependents(_, _, _, _, _)

TraceOverDependents(t, dependents, deps, i, visited) ==
    IF i > Len(deps) THEN [found |-> FALSE, visited |-> visited]
    ELSE LET r == traces_to_solid(t, dependents, deps[i], visited)
         IN IF r.found THEN r ELSE TraceOverDependents(t, dependents, deps, i+1, r.visited)

traces_to_solid(t, dependents, current_id, visited) ==
    IF current_id \in visited THEN [found |-> FALSE, visited |-> visited]
    ELSE IF current_id \notin DOMAIN t.nodes
    THEN [found |-> FALSE, visited |-> visited \cup {current_id}]
    ELSE IF t.nodes[current_id].feature_type \in solid_types /\ dependents[current_id] = <<>>
    THEN [found |-> TRUE, visited |-> visited \cup {current_id}]
    ELSE TraceOverDependents(t, dependents, dependents[current_id], 1,
                             visited \cup {current_id})

\* FeatureTreeValidator._node_affects_result
_node_affects_result(t, node_id) ==
    traces_to_solid(t, _build_dependency_graph(t), node_id, {}).found

\* FeatureTreeValidator._validate_result_impact: [errors, tree]
_validate_result_impact(t, new_node) ==
    LET c == _create_temp_tree_with_node(t, new_node)
    IN [errors |-> IF /\ ~_node_affects_result(c.temp, new_node.id)
                      /\ new_node.feature_type \notin {"workplane", "sketch"}
                   THEN <<[kind |-> "no_result_impact"]>> ELSE <<>>,
        tree |-> c.tree]

\* FeatureTreeValidator.validate_node_addition: [errors, tree]; the node is
\* valid when errors is empty, tree is the caller's tree after the call.
\* _validate_semantic_constraints only logs warnings and adds no error.
validate_node_addition(t, new_node, parent_id) ==
    LET e1 == IF new_node.id \in DOMAIN t.nodes THEN <<[kind |-> "id_exists"]>> ELSE <<>>
        e2 == _validate_parent_references(t, new_node, parent_id)
        d == _validate_dependencies(t, new_node)
        e5 == _validate_boolean_operation(d.tree, new_node)
        r == _validate_result_impact(d.tree, new_node)
    IN [errors |-> e1 \o e2 \o d.errors \o e5 \o r.errors, tree |-> r.tree]

\* --------------------------------------------------------------- storage
\* FeatureTree.remove_node: the node and, recursively, its child_ids
RECURSIVE remove_node(_, _)
RECURSIVE RemoveChildren(_, _, _)

RemoveChildren(t, children, i) ==
    IF i > Len(children) THEN t
    ELSE RemoveChildren(remove_node(t, children[i]), children, i+1)

remove_node(t, node_id) ==
    IF node_id \notin DOMAIN t.nodes THEN t
    ELSE LET t1 == RemoveChildren(t, t.nodes[node_id].child_ids, 1)
             keep == (DOMAIN t1.nodes) \ {node_id}
             order == RemoveFirst(t1.regeneration_order, node_id)
         IN [t1 EXCEPT
               !.nodes = [x \in keep |->
                            [t1.nodes[x] EXCEPT !.child_ids = RemoveFirst(@, node_id)]],
               !.node_keys = SelectSeq(@, LAMBDA x : x # node_id),
               !.regeneration_order = order,
               !.root_node_id = IF @ = node_id
                                THEN (IF order # <<>> THEN order[1] ELSE None)
                                ELSE @]

\* the exemption of add_node_to_tree for design-parameter nodes
IsValidationExempt(node) ==
    node.id \in DesignParamIds /\ node.name = "Design Parameters"

\* add_node_to_tree, lines 128-135: the parent reference recorded on the node
WithParentReference(t, node, parent_id) ==
    IF parent_id # None /\ parent_id \in DOMAIN t.nodes
       /\ parent_id \notin Range(node.parent_references)
    THEN [node EXCEPT !.parent_references = Append(@, parent_id)]
    ELSE node

\* variant: the tree is saved right after tree.add_node, before validate_tree
add_node_to_tree_save_first(t, node0, parent_id) ==
    LET node == WithParentReference(t, node0, parent_id)
        v == IF IsValidationExempt(node) THEN [errors |-> <<>>, tree |-> t]
             ELSE validate_node_addition(t, node, parent_id)
        t1 == add_node(v.tree, node, parent_id)
    IN IF v.errors # <<>>
       THEN [outcome |-> "invalid_node", errors |-> v.errors, tree |-> t, logged |-> FALSE]
       ELSE IF validate_tree(t1) # <<>>
       THEN [outcome |-> "invalid_tree", errors |-> validate_tree(t1), tree |-> t1,
             logged |-> FALSE]
       ELSE [outcome |-> "saved", errors |-> <<>>, logged |-> TRUE,
             tree |-> [t1 EXCEPT !.dirty = TRUE,
                                 !.needs_full_regeneration =
                                     (node.feature_type \in {"workplane", "sketch", "assembly_root"}
                                      \/ Cardinality(DOMAIN t1.nodes) = 1)]]

\* FeatureTreeStorage.add_node_to_tree, t being the stored document it loads:
\* the outcome ("saved", or the stage that raised ValueError), the errors,
\* the stored document after the call and whether the operation was logged
add_node_to_tree(t, node0, parent_id) ==
    LET node == WithParentReference(t, node0, parent_id)
        v == IF IsValidationExempt(node) THEN [errors |-> <<>>, tree |-> t]
             ELSE validate_node_addition(t, node, parent_id)
        t1 == add_node(v.tree, node, parent_id)
        terrors == validate_tree(t1)
        structural == node.feature_type \in {"workplane", "sketch", "assembly_root"}
                      \/ Cardinality(DOMAIN t1.nodes) = 1
    IN IF v.errors # <<>>
       THEN [outcome |-> "invalid_node", errors |-> v.errors, tree |-> t, logged |-> FALSE]
       ELSE IF terrors # <<>>
       THEN [outcome |-> "invalid_tree", errors |-> terrors, tree |-> t, logged |-> FALSE]
       ELSE [outcome |-> "saved", errors |-> <<>>, logged |-> TRUE,
             tree |-> [t1 EXCEPT !.dirty = TRUE, !.needs_full_regeneration = structural]]

\* the existing nodes reached from the set S along child_ids
RECURSIVE ChildClosure(_, _)

ChildClosure(t, S) ==
    LET more == S \cup {c \in DOMAIN t.nodes : \E x \in S : c \in Range(t.nodes[x].child_ids)}
    IN IF more = S THEN S ELSE ChildClosure(t, more)

ChildrenOf(t, x) == {c \in DOMAIN t.nodes : c \in Range(t.nodes[x].child_ids)}

\* FeatureTree.remove_node never returns when a cycle of child_ids is
\* reachable from the node: a node on the call stack is still in nodes when
\* the recursion comes back to it, and Python raises RecursionError
RemoveRecursesForever(t, node_id) ==
    \E x \in ChildClosure(t, {node_id}) : x \in ChildClosure(t, ChildrenOf(t, x))

\* FeatureTreeStorage.remove_node_from_tree
remove_node_from_tree(t, node_id) ==
    IF node_id \notin DOMAIN t.nodes
    THEN [outcome |-> "not_found", tree |-> t, logged |-> FALSE]
    ELSE IF RemoveRecursesForever(t, node_id)
    THEN [outcome |-> "RecursionError", tree |-> t, logged |-> FALSE]
    ELSE [outcome |-> "saved", logged |-> TRUE,
          tree |-> [remove_node(t, node_id) EXCEPT !.dirty = TRUE,
                                                   !.needs_full_regeneration = TRUE]]

\* FeatureTreeStorage.reorder_nodes
reorder_nodes(t, new_order) ==
    IF Range(new_order) # DOMAIN t.nodes
    THEN [outcome |-> "invalid_order", tree |-> t, logged |-> FALSE]
    ELSE [outcome |-> "saved", logged |-> TRUE,
          tree |-> [t EXCEPT !.regeneration_order = new_order, !.dirty = TRUE,
                             !.needs_full_regeneration = TRUE]]

\* ------------------------------------------------ graph facts for the claims
\* b is reachable from a along one or more parent references to existing nodes
RefEdge(t, a, b) == a \in DOMAIN t.nodes /\ b \in DOMAIN t.nodes
                    /\ b \in Range(t.nodes[a].parent_references)

RECURSIVE ReachSet(_, _)
ReachSet(t, S) ==
    LET S1 == S \cup {b \in DOMAIN t.nodes : \E a \in S : RefEdge(t, a, b)}
    IN IF S1 = S THEN S ELSE ReachSet(t, S1)

Ancestors(t, a) == ReachSet(t, {b \in DOMAIN t.nodes : RefEdge(t, a, b)})

OnCycle(t, a) == a \in DOMAIN t.nodes /\ a \in Ancestors(t, a)

HasCycle(t) == \E a \in DOMAIN t.nodes : OnCycle(t, a)

AllRefsExist(t) ==
    \A a \in DOMAIN t.nodes : Range(t.nodes[a].parent_references) \subseteq DOMAIN t.nodes

IsPermutationOfNodes(t, order) ==
    /\ Range(order) = DOMAIN t.nodes
    /\ Len(order) = Cardinality(DOMAIN t.nodes)

IsTopological(t, order) ==
    \A a, b \in DOMAIN t.nodes :
        RefEdge(t, a, b) => /\ IndexOf(order, a) > 0
                            /\ IndexOf(order, b) > 0
                            /\ IndexOf(order, b) < IndexOf(order, a)

\* ------------------------------------------- specification of bare trees
\* Trees built by direct FeatureTree.add_node calls (as the parser and the
\* model tests do), with arbitrary references, then handed to the resolver
\* and to validate_tree.
NoOut == [op |-> "none"]

\* no regeneration request is in progress
Idle == [pc |-> "idle"]

GraphNodes ==
    {FeatureNode(id, "node", "box", <<>>, refs) :
        id \in NodeIds, refs \in SeqsUpTo(NodeIds, MaxRefs)}

InitTree ==
    /\ tree = EmptyTree
    /\ out = NoOut
    /\ stored = EmptyTree
    /\ history = <<>>
    /\ last = NoOut
    /\ code = <<>>
    /\ regen = Idle

\* tree.add_node(node) with the next fresh id
TreeAddNode ==
    /\ Len(tree.node_keys) < Len(IdSeq)
    /\ \E node \in GraphNodes :
          /\ node.id = IdSeq[Len(tree.node_keys) + 1]
          /\ tree' = add_node(tree, node, None)
    /\ out' = NoOut
    /\ UNCHANGED <<stored, history, last, code, regen>>

\* generator._build_dependency_graph(tree); generator._resolve_dependencies(tree)
TreeResolve ==
    /\ out' = [op |-> "resolve"] @@ _resolve_dependencies(tree, _build_dependency_graph(tree))
    /\ UNCHANGED <<tree, stored, history, last, code, regen>>

\* tree.validate_tree()
TreeValidate ==
    /\ out' = [op |-> "validate_tree", errors |-> validate_tree(tree)]
    /\ UNCHANGED <<tree, stored, history, last, code, regen>>

NextTree == TreeAddNode \/ TreeResolve \/ TreeValidate

SpecTree == InitTree /\ [][NextTree]_vars

\* C1: for an acyclic tree whose references all name existing nodes, the
\* resolved order holds every node id exactly once and places every node
\* after each node it references (duplicate references included).
ResolveIsTopologicalPermutation ==
    (out.op = "resolve" /\ ~HasCycle(tree) /\ AllRefsExist(tree))
        => /\ IsPermutationOfNodes(tree, out.order)
           /\ IsTopological(tree, out.order)

\* a three-node acyclic tree, one node referencing the same parent twice and
\* inserted before that parent, has been resolved
ResolveDuplicateRefWitness ==
    /\ out.op = "resolve" /\ ~HasCycle(tree) /\ AllRefsExist(tree)
    /\ DOMAIN tree.nodes = NodeIds
    /\ \E a \in NodeIds : \E b \in NodeIds \ {a} :
          /\ tree.nodes[a].parent_references = <<b, b>>
          /\ IndexOf(tree.node_keys, a) < IndexOf(tree.node_keys, b)

ValidateTreeReportsCycles ==
    out.op = "validate_tree"
        => (HasCycle(tree) <=>
              \E i \in 1..Len(out.errors) : out.errors[i].kind = "circular")

\* a three-node cycle without self-reference or two-node cycle was validated
ValidateTreeCycleWitness ==
    /\ out.op = "validate_tree"
    /\ DOMAIN tree.nodes = NodeIds
    /\ \A a \in NodeIds : OnCycle(tree, a) /\ ~RefEdge(tree, a, a)
    /\ \A a, b \in NodeIds : ~(RefEdge(tree, a, b) /\ RefEdge(tree, b, a))

\* ------------------------------------- specification of generated scripts
\* Typed trees built by direct add_node calls, ids taken in a fixed order
\* (references may point forward, so regeneration_order need not be
\* topological), then handed to generate_cadquery_code.
GenTypes == {"workplane", "sketch", "box", "extrude", "fillet", "union", "mirror"}

GenRefIds == NodeIds \cup DesignParamIds

\* a boolean node carries up to two references (base and tool), any other
\* node at most one
GenRefs(ft) ==
    IF ft \in {"union", "difference", "intersection"}
    THEN SeqsUpTo(GenRefIds, 2) ELSE SeqsUpTo(GenRefIds, 1)

\* the nodes a caller may add next: the next id of IdSeq with any type, or
\* the design-parameters sketch
GenNodes(t) ==
    LET regular == SelectSeq(t.node_keys, LAMBDA id : id \in NodeIds)
    IN {FeatureNode(IdSeq[Len(regular) + 1], "node", ft, <<>>, refs) :
            ft \in GenTypes, refs \in SeqsUpTo(GenRefIds, 2)}
       \cup {FeatureNode(id, nm, "sketch", <<[name |-> "box", value |-> Num("5")]>>, refs) :
                id \in DesignParamIds, nm \in {"Design Parameters", "node"},
                refs \in SeqsUpTo(GenRefIds, 1)}

GenAddNode ==
    /\ Len(tree.node_keys) < Len(IdSeq)
    /\ \E node \in GenNodes(tree) :
          /\ node.id \notin DOMAIN tree.nodes
          /\ node.parent_references \in GenRefs(node.feature_type)
          /\ tree' = add_node(tree, node, None)
    /\ out' = NoOut
    /\ UNCHANGED <<stored, history, last, code, regen>>

\* generator.generate_cadquery_code(tree)
GenGenerate ==
    /\ out' = [op |-> "generate"] @@ generate_cadquery_code(tree)
    /\ UNCHANGED <<tree, stored, history, last, code, regen>>

NextGen == GenAddNode \/ GenGenerate

SpecGen == InitTree /\ [][NextGen]_vars

\* ------------------------------- specification of generated parameter text
\* Two-node trees over every emission rule, each node with at most one
\* parameter whose value is a number, a string or a parser placeholder.
ParamValues == {Num("5"), Str("XY"), Str("<Call>")}

ParamTypes == {"workplane", "sketch", "box", "cylinder", "sphere", "extrude", "revolve",
               "fillet", "chamfer", "union", "difference", "mirror"}

ParamLists ==
    {<<>>} \cup {<<[name |-> nm, value |-> v]>> : nm \in {"arg_0", "plane"}, v \in ParamValues}

ParamAddNode ==
    /\ Len(tree.node_keys) < 2
    /\ \E ft \in ParamTypes : \E ps \in ParamLists : \E refs \in SeqsUpTo({"n1", "n2"}, 1) :
          tree' = add_node(tree, FeatureNode(IdSeq[Len(tree.node_keys) + 1], "node",
                                             ft, ps, refs), None)
    /\ out' = NoOut
    /\ UNCHANGED <<stored, history, last, code, regen>>

NextParam == ParamAddNode \/ GenGenerate

SpecParam == InitTree /\ [][NextParam]_vars

\* str.isidentifier, for the strings of ParamValues
IsIdentifierText(text) == text \in {"XY"}

\* does the emitted argument text parse as a Python expression
ArgParses(a) ==
    \/ a.form \in {"repr", "quoted"}
    \/ a.value.kind = "num"
    \/ IsIdentifierText(a.value.text)

\* does the emitted line compile as a statement (a "# ERROR" line is a comment)
LineParses(l) ==
    IF l.kind = "assign" THEN \A i \in 1..Len(l.args) : ArgParses(l.args[i])
    ELSE IF l.kind = "param" THEN ArgParses(l.value)
    ELSE TRUE

\* C4: for a tree on which validate_tree returns no errors, generation does
\* not raise and every emitted line is a syntactically valid statement,
\* whatever the parameter values.
GeneratedScriptParses ==
    (out.op = "generate" /\ validate_tree(tree) = <<>>)
        => /\ out.raised = None
           /\ \A i \in 1..Len(out.lines) : LineParses(out.lines[i])

\* the variables of node statements that line l reads
UsedVars(l) ==
    IF l.kind = "assign"
    THEN {e.var : e \in {x \in {l.base, l.other} : x.kind \in {"var", "face"}}}
    ELSE IF l.kind = "result" /\ l.value.kind = "var" THEN {l.value.var}
    ELSE {}

AssignedBefore(lines, i) == {lines[j].var : j \in {k \in 1..(i-1) : lines[k].kind = "assign"}}

\* C5: in a script generated from a tree that passed validate_tree, every
\* node variable read as a base or boolean operand is assigned by an earlier
\* statement, and the last statement assigns result to an earlier-assigned
\* variable, or to the unit-box fallback when no node statement was emitted.
ScriptIsSelfContained ==
    (out.op = "generate" /\ validate_tree(tree) = <<>>)
        => LET lines == out.lines
               n == Len(lines)
           IN /\ out.raised = None
              /\ \A i \in 1..n : UsedVars(lines[i]) \subseteq AssignedBefore(lines, i)
              /\ lines[n].kind = "result"
              /\ \/ lines[n].value.kind = "var"
                 \/ /\ lines[n].value = UnitBox
                    /\ \A i \in 1..n : lines[i].kind # "assign"

\* a valid tree whose insertion order is not topological was generated, with
\* a sketch chained on a sketch and the result taken from a node variable
ScriptSelfContainedWitness ==
    /\ out.op = "generate" /\ validate_tree(tree) = <<>>
    /\ DOMAIN tree.nodes = NodeIds
    /\ ~IsTopological(tree, tree.regeneration_order)
    /\ \E a, b \in NodeIds :
          /\ RefEdge(tree, a, b)
          /\ tree.nodes[a].feature_type = "sketch" /\ tree.nodes[b].feature_type = "sketch"
    /\ out.lines[Len(out.lines)].value.kind = "var"

\* ------------------------------------------- specification of the validator
\* Small trees built by direct add_node calls (as test_node_validation does),
\* then candidates handed to validate_node_addition.
VTreeTypes == {"workplane", "sketch", "box"}

VTypes == {"sketch", "extrude", "fillet", "union", "intersection"}

VTreeIds == {"n1", "n2"}

VBuild ==
    /\ Len(tree.node_keys) < 2
    /\ \E ft \in VTreeTypes : \E refs \in SeqsUpTo(VTreeIds, 1) :
          tree' = add_node(tree, FeatureNode(IdSeq[Len(tree.node_keys) + 1], "node",
                                             ft, <<>>, refs), None)
    /\ out' = NoOut
    /\ UNCHANGED <<stored, history, last, code, regen>>

\* feature_tree_validator.validate_node_addition(tree, node, parent_id)
VValidate ==
    /\ out = NoOut
    /\ \E id \in NodeIds : \E ft \in VTypes : \E refs \in SeqsUpTo(NodeIds, MaxOperands) :
       \E parent_id \in NodeIds \cup {None} :
          LET node == FeatureNode(id, "node", ft, <<>>, refs)
              r == validate_node_addition(tree, node, parent_id)
          IN /\ tree' = r.tree
             /\ out' = [op |-> "validate_node_addition", node |-> node,
                        parent_id |-> parent_id, errors |-> r.errors, before |-> tree]
    /\ UNCHANGED <<stored, history, last, code, regen>>

NextValidate == VBuild \/ VValidate

SpecValidate == InitTree /\ [][NextValidate]_vars

HasError(errors, kind) == \E i \in 1..Len(errors) : errors[i].kind = kind

\* C7: a candidate whose type has a valid-parents entry is rejected whenever
\* an existing referenced parent has a type outside the entry; an EXTRUDE
\* whose only parent is a WORKPLANE gets the invalid-parent-type reason, and
\* an EXTRUDE with a fresh id whose only parent is a SKETCH child of a
\* WORKPLANE is accepted (in a tree that passes validate_tree).
ParentTypeCompatibility ==
    out.op = "validate_node_addition" =>
        LET t == out.before
            ft == out.node.feature_type
            refs == out.node.parent_references
            typeOf(id) == t.nodes[id].feature_type
        IN /\ (/\ ft \in DOMAIN valid_parent_types
               /\ \E i \in 1..Len(refs) :
                     refs[i] \in DOMAIN t.nodes
                     /\ typeOf(refs[i]) \notin valid_parent_types[ft])
                  => out.errors # <<>>
           /\ (/\ ft = "extrude" /\ Len(refs) = 1
               /\ refs[1] \in DOMAIN t.nodes /\ typeOf(refs[1]) = "workplane"
               /\ out.parent_id \in {None, refs[1]})
                  => HasError(out.errors, "invalid_parent_type")
           /\ (/\ ft = "extrude" /\ Len(refs) = 1
               /\ validate_tree(t) = <<>>
               /\ out.node.id \notin DOMAIN t.nodes
               /\ refs[1] \in DOMAIN t.nodes /\ typeOf(refs[1]) = "sketch"
               /\ \E w \in DOMAIN t.nodes : typeOf(w) = "workplane"
                                            /\ t.nodes[refs[1]].parent_references = <<w>>
               /\ out.parent_id \in {None, refs[1]})
                  => out.errors = <<>>

\* the EXTRUDE under a SKETCH child of a WORKPLANE has been validated
ExtrudeUnderSketchWitness ==
    /\ out.op = "validate_node_addition"
    /\ out.node.feature_type = "extrude" /\ out.node.id = "n3"
    /\ out.node.parent_references = <<"n2">> /\ out.parent_id = "n2"
    /\ "n2" \in DOMAIN out.before.nodes /\ out.before.nodes["n2"].feature_type = "sketch"
    /\ out.before.nodes["n2"].parent_references = <<"n1">>
    /\ out.before.nodes["n1"].feature_type = "workplane"
    /\ out.errors = <<>>

\* volume-producing feature types
VolumeTypes == {"extrude", "revolve", "loft", "sweep", "box", "cylinder", "sphere",
                "cone", "torus"}

SolidRefCount(t, node) ==
    Cardinality({i \in 1..Len(node.parent_references) :
                    /\ node.parent_references[i] \in DOMAIN t.nodes
                    /\ t.nodes[node.parent_references[i]].feature_type \in VolumeTypes})

\* C8: a UNION, DIFFERENCE or INTERSECTION candidate is accepted only if
\* exactly two of its parent references resolve to volume-producing nodes,
\* and with fewer it is rejected with the requires-2-solid-parents error
\* carrying the number found.
BooleanNeedsExactlyTwoSolids ==
    (out.op = "validate_node_addition"
     /\ out.node.feature_type \in {"union", "difference", "intersection"})
        => LET n == SolidRefCount(out.before, out.node)
           IN /\ out.errors = <<>> => n = 2
              /\ n < 2 => \E i \in 1..Len(out.errors) :
                              /\ out.errors[i].kind = "needs_two_solids"
                              /\ out.errors[i].found = n

\* C9: a candidate whose insertion makes its id reachable from itself is
\* rejected with the circular-dependency error, and the tree passed in is
\* the same after the call.
CircularCandidateRejected ==
    out.op = "validate_node_addition" =>
        /\ OnCycle(PutNode(out.before, out.node), out.node.id)
              => HasError(out.errors, "circular")
        /\ tree = out.before

\* a candidate whose id is that of an ancestor of its parent was validated
CircularCandidateWitness ==
    /\ out.op = "validate_node_addition"
    /\ out.node.id \in DOMAIN out.before.nodes
    /\ \E p \in Range(out.node.parent_references) :
          /\ p # out.node.id
          /\ out.node.id \in Ancestors(out.before, p)
    /\ HasError(out.errors, "circular")

\* ---------------------------------------------- specification of the storage
\* The persisted tree document and its operation history under the storage
\* operations; every call loads the stored document, works on the loaded
\* copy and saves it only on success.
MaxOps == 2

MaxOrder == 3

StoreIds == {"n1", "n2"} \cup DesignParamIds

StoreTypes == {"workplane", "sketch", "extrude", "box"}

StoreNames(id) == IF id \in DesignParamIds THEN {"Design Parameters", "node"} ELSE {"node"}

\* FeatureTreeStorage._log_operation
_log_operation(h, operation_type, node_id) ==
    Append(h, [operation_type |-> operation_type, node_id |-> node_id])

AddNodeToTree ==
    /\ Len(history) < MaxOps
    /\ \E id \in StoreIds : \E name \in StoreNames(id) : \E ft \in StoreTypes :
       \E refs \in SeqsUpTo(StoreIds, 1) : \E parent_id \in StoreIds \cup {None} :
          LET r == add_node_to_tree(stored, FeatureNode(id, name, ft, <<>>, refs), parent_id)
          IN /\ stored' = r.tree
             /\ history' = IF r.logged THEN _log_operation(history, "add", id) ELSE history
             /\ last' = [op |-> "add_node_to_tree", outcome |-> r.outcome]
    /\ UNCHANGED <<tree, out, code, regen>>

RemoveNodeFromTree ==
    /\ Len(history) < MaxOps
    /\ \E id \in StoreIds :
          LET r == remove_node_from_tree(stored, id)
          IN /\ stored' = r.tree
             /\ history' = IF r.logged THEN _log_operation(history, "remove", id) ELSE history
             /\ last' = [op |-> "remove_node_from_tree", outcome |-> r.outcome]
    /\ UNCHANGED <<tree, out, code, regen>>

ReorderNodes ==
    /\ Len(history) < MaxOps
    /\ \E new_order \in SeqsUpTo(StoreIds, MaxOrder) :
          LET r == reorder_nodes(stored, new_order)
          IN /\ stored' = r.tree
             /\ history' = IF r.logged THEN _log_operation(history, "reorder", None)
                           ELSE history
             /\ last' = [op |-> "reorder_nodes", outcome |-> r.outcome]
    /\ UNCHANGED <<tree, out, code, regen>>

Next == AddNodeToTree \/ RemoveNodeFromTree \/ ReorderNodes

Spec == InitTree /\ [][Next]_vars

\* C6: a step in which add_node_to_tree rejects the node (validator errors,
\* or validate_tree errors after the tentative add) leaves the persisted tree
\* document and the persisted operation history exactly as they were.
RejectedAddLeavesStoreUnchanged ==
    [][(last'.op = "add_node_to_tree" /\ last'.outcome \in {"invalid_node", "invalid_tree"})
          => (stored' = stored /\ history' = history)]_vars

\* an add was rejected by validate_tree after the tentative add, on a
\* non-empty persisted tree with a non-empty history
RejectedAfterTentativeAddWitness ==
    /\ last.op = "add_node_to_tree" /\ last.outcome = "invalid_tree"
    /\ stored.node_keys # <<>>
    /\ history # <<>>

\* C10: the persisted regeneration_order contains every key of nodes exactly
\* once and no other id.
RegenerationOrderIsPermutation ==
    IsPermutationOfNodes(stored, stored.regeneration_order)

\* --------------------------------- storage operations on a two-node chain
\* The same three storage operations on trees of workplanes and sketches over
\* two ids, followed for one operation more than the specification above.
MaxChainOps == 3

ChainIds == {"n1", "n2"}

ChainTypes == {"workplane", "sketch"}

ChainAddNode ==
    /\ Len(history) < MaxChainOps
    /\ \E id \in ChainIds : \E ft \in ChainTypes :
       \E refs \in SeqsUpTo(ChainIds, 1) : \E parent_id \in ChainIds \cup {None} :
          LET r == add_node_to_tree(stored, FeatureNode(id, "node", ft, <<>>, refs), parent_id)
          IN /\ stored' = r.tree
             /\ history' = IF r.logged THEN _log_operation(history, "add", id) ELSE history
             /\ last' = [op |-> "add_node_to_tree", outcome |-> r.outcome]
    /\ UNCHANGED <<tree, out, code, regen>>

ChainRemoveNode ==
    /\ Len(history) < MaxChainOps
    /\ \E id \in ChainIds :
          LET r == remove_node_from_tree(stored, id)
          IN /\ stored' = r.tree
             /\ history' = IF r.logged THEN _log_operation(history, "remove", id) ELSE history
             /\ last' = [op |-> "remove_node_from_tree", outcome |-> r.outcome]
    /\ UNCHANGED <<tree, out, code, regen>>

ChainReorderNodes ==
    /\ Len(history) < MaxChainOps
    /\ \E new_order \in SeqsUpTo(ChainIds, MaxOrder) :
          LET r == reorder_nodes(stored, new_order)
          IN /\ stored' = r.tree
             /\ history' = IF r.logged THEN _log_operation(history, "reorder", None)
                           ELSE history
             /\ last' = [op |-> "reorder_nodes", outcome |-> r.outcome]
    /\ UNCHANGED <<tree, out, code, regen>>

NextChain == ChainAddNode \/ ChainRemoveNode \/ ChainReorderNodes

SpecChain == InitTree /\ [][NextChain]_vars

\* C11: in every persisted tree the regeneration_order is a topological
\* order of the parent-reference graph: no node id comes before the id of a
\* node it references.
RegenerationOrderIsTopological ==
    IsTopological(stored, stored.regeneration_order)

\* C12: every parent_references entry of every node of the persisted tree
\* names a node that is still in the tree.
NoDanglingParentReferences ==
    AllRefsExist(stored)

\* C13: a node P's child_ids contains C exactly when C is in the tree and has
\* a parent reference to P.
ChildIdsInverseOfParentReferences ==
    \A P \in DOMAIN stored.nodes : \A C \in StoreIds :
        (C \in Range(stored.nodes[P].child_ids)) <=> RefEdge(stored, C, P)

\* C14: every successful add_node_to_tree, remove_node_from_tree or
\* reorder_nodes leaves the persisted tree with dirty = true and
\* needs_full_regeneration = true.
SuccessfulMutationSetsBothFlags ==
    (last.op \in {"add_node_to_tree", "remove_node_from_tree", "reorder_nodes"}
     /\ last.outcome = "saved")
        => (stored.dirty /\ stored.needs_full_regeneration)

\* ------------------------------------------------ scripts and the patchers
\* A script is a sequence of lines.  A line is a record:
\*   [kind |-> "assign", indent, name, value, tail]   <indent>name = <literal><tail>
\*        value is the literal as written: Num(text) or Str(text)
\*        tail is nothing, a trailing comment, or "; name2 = <literal2>"
\*   [kind |-> "call", indent, name]    name = cq.Workplane("XY").circle(radius)...
\*   [kind |-> "def", indent]           def build():
\*   [kind |-> "import", indent]        import cadquery as cq
MaxLines == 3

NoTail == [kind |-> "none"]
CommentTail == [kind |-> "comment"]
StmtTail(name, value) == [kind |-> "assign", name |-> name, value |-> value]

AssignLine(indent, name, value, tail) ==
    [kind |-> "assign", indent |-> indent, name |-> name, value |-> value, tail |-> tail]

CallLine == [kind |-> "call", indent |-> 0, name |-> "result"]
DefLine == [kind |-> "def", indent |-> 0]
ImportLine == [kind |-> "import", indent |-> 0]

\* the Python value a numeric literal denotes, written as str() prints it
CanonicalNumber(text) == IF text = "5.00" THEN "5.0" ELSE text

\* ast.literal_eval of a literal / the value of an ast.Constant
literal_eval(lit) == IF lit.kind = "num" THEN Num(CanonicalNumber(lit.text)) ELSE lit

\* str.replace('.', '').replace('-', '').isdigit()
IsDigitText(text) == text \in {"5", "7", "12", "5.0", "5.00"}

\* the regular expression ^(\s*)(name)\s*=\s*.+ of update_parameter_in_code
\* matches a line whose first statement assigns to name
PatternMatches(line, original_var_name) ==
    line.kind \in {"assign", "call"} /\ line.name = original_var_name

\* variant: the pattern is anchored at the name, so an indented assignment
\* is not matched
update_parameter_in_code_unindented(script, original_var_name, new_value) ==
    [i \in 1..Len(script) |->
        IF PatternMatches(script[i], original_var_name) /\ script[i].indent = 0
        THEN AssignLine(0, original_var_name, Num(new_value.text), NoTail)
        ELSE script[i]]

\* CADAMStyleParameterExtractor.update_parameter_in_code
update_parameter_in_code(script, original_var_name, new_value) ==
    LET new_literal == IF new_value.kind = "str" /\ ~IsDigitText(new_value.text)
                       THEN Str(new_value.text)
                       ELSE Num(new_value.text)
    IN [i \in 1..Len(script) |->
          IF PatternMatches(script[i], original_var_name)
          THEN AssignLine(script[i].indent, original_var_name, new_literal, NoTail)
          ELSE script[i]]

\* CADAMStyleParameterExtractor._extract_parameter_section: the lines kept
RECURSIVE _extract_parameter_section(_, _)
_extract_parameter_section(lines, i) ==
    IF i > Len(lines) THEN <<>>
    ELSE IF lines[i].kind = "import" THEN _extract_parameter_section(lines, i+1)
    ELSE IF lines[i].kind \in {"def", "call"} THEN <<>>
    ELSE <<lines[i]>> \o _extract_parameter_section(lines, i+1)

\* CADAMStyleParameterExtractor._parse_parameter_line: everything after the
\* first "=" is the value string; what is not a literal is kept as a string
_parse_parameter_line(line) ==
    [original_variable_name |-> line.name,
     value |-> IF line.tail.kind = "assign" THEN [kind |-> "str", text |-> "<rest of line>"]
               ELSE literal_eval(line.value)]

\* CADAMStyleParameterExtractor.extract_parameters_from_code
extract_parameters_from_code(script) ==
    LET section == _extract_parameter_section(script, 1)
    IN [i \in 1..Len(section) |-> _parse_parameter_line(section[i])]

\* ast.parse succeeds: an indented line continues a block opened by def, and
\* a def is followed by its block
Parses(script) ==
    \A i \in 1..Len(script) :
        /\ script[i].indent > 0 =>
              (i > 1 /\ (script[i-1].kind = "def" \/ script[i-1].indent > 0))
        /\ script[i].kind = "def" => (i < Len(script) /\ script[i+1].indent > 0)

\* the assignments of a literal to a name on one line, in source order
LiteralAssignsOn(script, i) ==
    IF script[i].kind # "assign" THEN <<>>
    ELSE <<[name |-> script[i].name, value |-> literal_eval(script[i].value),
            line_number |-> i]>>
         \o (IF script[i].tail.kind = "assign"
             THEN <<[name |-> script[i].tail.name,
                     value |-> literal_eval(script[i].tail.value), line_number |-> i]>>
             ELSE <<>>)

\* the ast.Assign nodes in the order of ast.walk: breadth first, so the
\* module-level statements come before the statements of a function body
WalkAssigns(script) ==
    LET F[i \in 0..Len(script)] ==
            IF i = 0 THEN [top |-> <<>>, nested |-> <<>>]
            ELSE IF script[i].indent = 0
                 THEN [F[i-1] EXCEPT !.top = @ \o LiteralAssignsOn(script, i)]
                 ELSE [F[i-1] EXCEPT !.nested = @ \o LiteralAssignsOn(script, i)]
    IN F[Len(script)].top \o F[Len(script)].nested

\* ASTParameterModifier._extract_parameters: a dict, so a name keeps the
\* place of its first assignment and the ParameterInfo of its last
_extract_parameters(script) ==
    LET w == WalkAssigns(script)
        first == SelectSeq([i \in 1..Len(w) |-> i],
                           LAMBDA i : \A j \in 1..(i-1) : w[j].name # w[i].name)
        lastOf(nm) == CHOOSE j \in 1..Len(w) :
                         w[j].name = nm /\ \A l \in (j+1)..Len(w) : w[l].name # nm
    IN [k \in 1..Len(first) |-> w[lastOf(w[first[k]].name)]]

\* ASTParameterModifier.modify_parameters for one change
modify_parameters(parameters, param_name, new_value) ==
    [parameters |-> [k \in 1..Len(parameters) |->
                       IF parameters[k].name = param_name
                       THEN [parameters[k] EXCEPT !.value = new_value]
                       ELSE parameters[k]],
     failed_params |-> IF \E k \in 1..Len(parameters) : parameters[k].name = param_name
                       THEN <<>> ELSE <<param_name>>]

\* ASTParameterModifier.get_modified_code_simple: the line of every
\* parameter is written again, in dict order
RECURSIVE get_modified_code_simple(_, _, _)
get_modified_code_simple(lines, parameters, k) ==
    IF k > Len(parameters) THEN lines
    ELSE LET info == parameters[k]
             new_line == AssignLine(lines[info.line_number].indent, info.name,
                                    info.value, NoTail)
         IN get_modified_code_simple([lines EXCEPT ![info.line_number] = new_line],
                                     parameters, k+1)

\* ast_parameter_modifier.modify_cadquery_parameters for one change:
\* [raised, code, failed_params]
modify_cadquery_parameters(original_code, param_name, new_value) ==
    IF ~Parses(original_code)
    THEN [raised |-> "SyntaxError", code |-> original_code, failed_params |-> <<>>]
    ELSE LET m == modify_parameters(_extract_parameters(original_code), param_name, new_value)
         IN [raised |-> None,
             code |-> get_modified_code_simple(original_code, m.parameters, 1),
             failed_params |-> m.failed_params]

\* -------------------------------------------- specification of the patchers
PatchNames == {"radius", "height"}

PatchValues == {Num("7"), Str("XY")}

PatchLines ==
    {AssignLine(0, "radius", Num("5"), NoTail),
     AssignLine(0, "radius", Num("5.00"), NoTail),
     AssignLine(0, "radius", Num("5"), CommentTail),
     AssignLine(0, "radius", Num("5"), StmtTail("height", Num("5"))),
     AssignLine(0, "height", Num("5"), StmtTail("radius", Num("5"))),
     AssignLine(0, "height", Num("5"), NoTail),
     AssignLine(4, "radius", Num("5"), NoTail),
     CallLine, DefLine, ImportLine}

\* the script under edit grows by one line
PatchAppendLine ==
    /\ out = NoOut /\ last = NoOut
    /\ Len(code) < MaxLines
    /\ \E line \in PatchLines : code' = Append(code, line)
    /\ UNCHANGED <<tree, out, stored, history, last, regen>>

\* new_code = extractor.update_parameter_in_code(new_code, name, value)
PatchUpdateParameterInCode ==
    /\ out = NoOut /\ last = NoOut
    /\ \E name \in PatchNames : \E new_value \in PatchValues :
          /\ code' = update_parameter_in_code(code, name, new_value)
          /\ last' = [op |-> "update_parameter_in_code", name |-> name,
                      value |-> new_value, before |-> code, raised |-> None,
                      failed_params |-> <<>>]
    /\ UNCHANGED <<tree, out, stored, history, regen>>

\* modified_code, failed = modify_cadquery_parameters(original_code, {name: value})
PatchModifyCadqueryParameters ==
    /\ out = NoOut /\ last = NoOut
    /\ \E name \in PatchNames : \E new_value \in PatchValues :
          LET r == modify_cadquery_parameters(code, name, new_value)
          IN /\ code' = r.code
             /\ last' = [op |-> "modify_cadquery_parameters", name |-> name,
                         value |-> new_value, before |-> code, raised |-> r.raised,
                         failed_params |-> r.failed_params]
    /\ UNCHANGED <<tree, out, stored, history, regen>>

\* extractor.extract_parameters_from_code(code)
PatchExtractParameters ==
    /\ out = NoOut
    /\ out' = [op |-> "extract_parameters_from_code",
               parameters |-> extract_parameters_from_code(code)]
    /\ UNCHANGED <<tree, stored, history, last, code, regen>>

NextPatch ==
    \/ PatchAppendLine
    \/ PatchUpdateParameterInCode
    \/ PatchModifyCadqueryParameters
    \/ PatchExtractParameters

SpecPatch == InitTree /\ [][NextPatch]_vars

\* the statements of a line that assign to name
AssignsTo(line, name) ==
    \/ (line.kind \in {"assign", "call"} /\ line.name = name)
    \/ (line.kind = "assign" /\ line.tail.kind = "assign" /\ line.tail.name = name)

Patched == last.op \in {"update_parameter_in_code", "modify_cadquery_parameters"}

\* C15: a patch for name that did not raise, on a script that assigns name,
\* leaves every line identical except one line that assigns name, and that
\* line keeps its indentation.
PatchChangesOnlyTheAssignment ==
    (Patched /\ last.raised = None /\ \E i \in 1..Len(last.before) : AssignsTo(last.before[i], last.name))
        => /\ Len(code) = Len(last.before)
           /\ \E i \in 1..Len(code) :
                 /\ AssignsTo(last.before[i], last.name)
                 /\ code[i].indent = last.before[i].indent
                 /\ \A j \in 1..Len(code) : j # i => code[j] = last.before[j]

\* C16: a patch for a name that no statement of the script assigns fails
\* with PatchError.
PatchOfMissingNameFails ==
    (Patched /\ \A i \in 1..Len(last.before) : ~AssignsTo(last.before[i], last.name))
        => last.raised = "PatchError"

\* the extraction after a patch has the patched name with the patched value
RoundTrips ==
    \E k \in 1..Len(out.parameters) :
        /\ out.parameters[k].original_variable_name = last.name
        /\ out.parameters[k].value = last.value

InParameterSection(script, name) ==
    \E k \in 1..Len(_extract_parameter_section(script, 1)) :
        PatternMatches(_extract_parameter_section(script, 1)[k], name)

Const(lit) == [kind |-> "const", lit |-> lit]
NameRef(id) == [kind |-> "name", id |-> id]
CallArg == [kind |-> "call"]
BinOp(left, op, right) == [kind |-> "binop", left |-> left, op |-> op, right |-> right]

BinOpLine(name, left, op, right) ==
    [kind |-> "binop", indent |-> 0, name |-> name, value |-> BinOp(left, op, right)]

AliasLine(name, ref) == [kind |-> "alias", indent |-> 0, name |-> name, ref |-> ref]

ChainLine(name, chain) == [kind |-> "chain", indent |-> 0, name |-> name, chain |-> chain]

Call(function, args) == [function |-> function, args |-> args]

\* FeatureTreeParser.METHOD_TO_FEATURE
METHOD_TO_FEATURE ==
    [Workplane |-> "workplane", workplane |-> "workplane",
     rect |-> "sketch", circle |-> "sketch", ellipse |-> "sketch", polygon |-> "sketch",
     polyline |-> "sketch", spline |-> "sketch", line |-> "sketch", arc |-> "sketch",
     extrude |-> "extrude", revolve |-> "revolve", loft |-> "loft", sweep |-> "sweep",
     box |-> "box", cylinder |-> "cylinder", sphere |-> "sphere", cone |-> "cone",
     torus |-> "torus",
     union |-> "union", cut |-> "difference", intersect |-> "intersection", fuse |-> "union",
     fillet |-> "fillet", chamfer |-> "chamfer", mirror |-> "mirror",
     rarray |-> "pattern_linear", polarArray |-> "pattern_circular"]

\* Python numbers as str() prints them: an int k is "k", a float k is "k.0"
Numbers == 0..99
IsFloatText(text) == \E k \in Numbers : text = ToString(k) \o ".0"
NumberOf(text) == CHOOSE k \in Numbers : text \in {ToString(k), ToString(k) \o ".0"}
NumberText(k, is_float) == IF is_float THEN ToString(k) \o ".0" ELSE ToString(k)

\* left + right and left * right of two Python numbers: a float as soon as
\* one operand is a float
Arithmetic(op, left, right) ==
    LET is_float == IsFloatText(left.text) \/ IsFloatText(right.text)
    IN IF op = "Add"
       THEN Num(NumberText(NumberOf(left.text) + NumberOf(right.text), is_float))
       ELSE Num(NumberText(NumberOf(left.text) * NumberOf(right.text), is_float))

\* FeatureTreeParser._extract_value with the variable tracker as it is at the
\* time of the call
RECURSIVE _extract_value(_, _)
_extract_value(node, variable_tracker) ==
    IF node.kind = "const" THEN literal_eval(node.lit)
    ELSE IF node.kind = "name"
    THEN IF node.id \in DOMAIN variable_tracker /\ variable_tracker[node.id].kind = "num"
         THEN variable_tracker[node.id]
         ELSE Num("1.0")
    ELSE IF node.kind = "binop"
    THEN LET left == _extract_value(node.left, variable_tracker)
             right == _extract_value(node.right, variable_tracker)
         IN IF left.kind = "num" /\ right.kind = "num"
            THEN Arithmetic(node.op, left, right)
            ELSE Num("1.0")
    ELSE Str("<Call>")

\* FeatureTreeParser._extract_call_info: the arguments are evaluated here
_extract_call_info(call, variable_tracker) ==
    [function |-> call.function,
     args |-> [i \in 1..Len(call.args) |-> _extract_value(call.args[i], variable_tracker)]]

\* FeatureTreeParser._analyze_ast: the assignments in source order and the
\* method chains of the assignments whose value is a call; it runs before the
\* variable tracker is filled, so the tracker it sees is the empty one
_analyze_ast(script, variable_tracker) ==
    LET chains == SelectSeq(script, LAMBDA st : st.kind = "chain")
    IN [assignments |-> script,
        method_chains |->
            [k \in 1..Len(chains) |->
                [variable |-> chains[k].name,
                 chain |-> [c \in 1..Len(chains[k].chain) |->
                              _extract_call_info(chains[k].chain[c], variable_tracker)]]]]

\* dict assignment on the tracker
TrackerSet(variable_tracker, k, v) ==
    [x \in (DOMAIN variable_tracker) \cup {k} |-> IF x = k THEN v ELSE variable_tracker[x]]

\* FeatureTreeParser._build_variable_tracker, first loop: literal assignments
RECURSIVE TrackLiterals(_, _, _)
TrackLiterals(assignments, i, variable_tracker) ==
    IF i > Len(assignments) THEN variable_tracker
    ELSE TrackLiterals(assignments, i+1,
                       IF assignments[i].kind = "assign"
                       THEN TrackerSet(variable_tracker, assignments[i].name,
                                       literal_eval(assignments[i].value))
                       ELSE variable_tracker)

\* the right-hand side of an assignment statement
ValueNode(assignment) ==
    IF assignment.kind = "assign" THEN Const(assignment.value)
    ELSE IF assignment.kind = "alias" THEN NameRef(assignment.ref)
    ELSE IF assignment.kind = "binop" THEN assignment.value
    ELSE CallArg

max_passes == 3

\* one pass of the second loop over st = [variable_tracker, resolved_any]: a
\* name not tracked yet gets the value its expression extracts to when that
\* is a number; any other value is replaced by the default 1.0 on the last
\* pass only.  No expression extracts to a string of digits: literals were
\* tracked by the first loop.
RECURSIVE TrackExpressions(_, _, _, _)
TrackExpressions(assignments, i, pass_num, st) ==
    IF i > Len(assignments) THEN st
    ELSE LET var_name == assignments[i].name
             var_value == _extract_value(ValueNode(assignments[i]), st.variable_tracker)
         IN TrackExpressions(assignments, i+1, pass_num,
                IF var_name \in DOMAIN st.variable_tracker THEN st
                ELSE IF var_value.kind = "num"
                THEN [variable_tracker |-> TrackerSet(st.variable_tracker, var_name, var_value),
                      resolved_any |-> TRUE]
                ELSE IF pass_num = max_passes - 1
                THEN [st EXCEPT !.variable_tracker = TrackerSet(@, var_name, Num("1.0"))]
                ELSE st)

\* for pass_num in range(max_passes), left as soon as a pass resolves nothing
RECURSIVE ResolvePasses(_, _, _)
ResolvePasses(assignments, pass_num, variable_tracker) ==
    IF pass_num >= max_passes THEN variable_tracker
    ELSE LET st == TrackExpressions(assignments, 1, pass_num,
                                    [variable_tracker |-> variable_tracker,
                                     resolved_any |-> FALSE])
         IN IF ~st.resolved_any THEN st.variable_tracker
            ELSE ResolvePasses(assignments, pass_num + 1, st.variable_tracker)

\* FeatureTreeParser._build_variable_tracker
_build_variable_tracker(assignments, variable_tracker) ==
    ResolvePasses(assignments, 0, TrackLiterals(assignments, 1, variable_tracker))

ArgNames == <<"arg_0", "arg_1", "arg_2">>

\* FeatureTreeParser._create_feature_node_from_call; the node id is the
\* next fresh id and the name is the variable of the chain
_create_feature_node_from_call(call, var_name, id) ==
    FeatureNode(id, var_name, METHOD_TO_FEATURE[call.function],
                [i \in 1..Len(call.args) |-> [name |-> ArgNames[i], value |-> call.args[i]]],
                <<>>)

\* FeatureTreeParser._process_method_chain from call i on; st is
\* [tree, variable_tracker, node_counter], parent_id the node made last
RECURSIVE _process_method_chain(_, _, _, _)
_process_method_chain(chain_info, i, parent_id, st) ==
    IF i > Len(chain_info.chain) THEN st
    ELSE LET call == chain_info.chain[i]
         IN IF call.function \notin DOMAIN METHOD_TO_FEATURE
            THEN _process_method_chain(chain_info, i+1, parent_id, st)
            ELSE LET id == IdSeq[st.node_counter + 1]
                     made == _create_feature_node_from_call(call, chain_info.variable, id)
                     node == IF parent_id # None
                             THEN [made EXCEPT !.parent_references = Append(@, parent_id)]
                             ELSE made
                 IN _process_method_chain(chain_info, i+1, id,
                        [tree |-> add_node(st.tree, node, parent_id),
                         variable_tracker |->
                             TrackerSet(st.variable_tracker, chain_info.variable, Str(id)),
                         node_counter |-> st.node_counter + 1])

RECURSIVE ProcessChains(_, _, _)
ProcessChains(method_chains, k, st) ==
    IF k > Len(method_chains) THEN st
    ELSE ProcessChains(method_chains, k+1,
                       _process_method_chain(method_chains[k], 1, None, st))

\* FeatureTreeParser._resolve_parameter_variables: a string parameter that
\* names a tracked number gets the number
_resolve_parameter_variables(t, variable_tracker) ==
    LET Resolved(p) ==
            IF /\ p.value.kind = "str"
               /\ p.value.text \in DOMAIN variable_tracker
               /\ variable_tracker[p.value.text].kind = "num"
            THEN [name |-> p.name, value |-> variable_tracker[p.value.text]]
            ELSE p
    IN [t EXCEPT !.nodes =
           [id \in DOMAIN t.nodes |->
               [t.nodes[id] EXCEPT !.parameters =
                   [i \in 1..Len(t.nodes[id].parameters) |->
                       Resolved(t.nodes[id].parameters[i])]]]]

\* FeatureTreeParser.parse_code_to_tree for a script that is valid Python:
\* the tree
parse_code_to_tree(script) ==
    LET analysis == _analyze_ast(script, <<>>)
        tracker == _build_variable_tracker(analysis.assignments, <<>>)
        st == ProcessChains(analysis.method_chains, 1,
                            [tree |-> EmptyTree, variable_tracker |-> tracker,
                             node_counter |-> 0])
    IN _resolve_parameter_variables(st.tree, st.variable_tracker)

\* --------------------------------------------- specification of the parser
ParseLines ==
    {AssignLine(0, "radius", Num("5"), NoTail),
     AssignLine(0, "height", Num("10"), NoTail),
     AliasLine("width", "radius"),
     ChainLine("result", <<Call("Workplane", <<Const(Str("XY"))>>),
                           Call("cylinder", <<NameRef("radius"), NameRef("height")>>)>>),
     ChainLine("result", <<Call("Workplane", <<Const(Str("XY"))>>),
                           Call("circle", <<NameRef("radius")>>),
                           Call("extrude", <<NameRef("height")>>)>>),
     ChainLine("part", <<Call("box", <<NameRef("width"), NameRef("height"), Const(Num("5"))>>),
                         Call("translate", <<CallArg>>),
                         Call("fillet", <<Const(Str("radius"))>>)>>)}

\* the script grows by one statement; it has at most one method chain
ParseAppendLine ==
    /\ out = NoOut
    /\ Len(code) < MaxLines
    /\ \E line \in ParseLines :
          /\ line.kind = "chain" => \A i \in 1..Len(code) : code[i].kind # "chain"
          /\ code' = Append(code, line)
    /\ UNCHANGED <<tree, out, stored, history, last, regen>>

\* parser.parse_code_to_tree(code, project_id, user_id)
ParseCodeToTree ==
    /\ out = NoOut
    /\ tree' = parse_code_to_tree(code)
    /\ out' = [op |-> "parse_code_to_tree", raised |-> None]
    /\ UNCHANGED <<stored, history, last, code, regen>>

NextParse == ParseAppendLine \/ ParseCodeToTree

SpecParse == InitTree /\ [][NextParse]_vars

\* the mapped calls of the chains of a script, in the order their nodes are made
MappedCalls(script) ==
    LET chains == SelectSeq(script, LAMBDA st : st.kind = "chain")
        F[k \in 0..Len(chains)] ==
            IF k = 0 THEN <<>>
            ELSE F[k-1] \o SelectSeq(chains[k].chain,
                                     LAMBDA c : c.function \in DOMAIN METHOD_TO_FEATURE)
    IN F[Len(chains)]

\* the literal assignments of the script to the variable
LiteralBindings(script, v) ==
    {i \in 1..Len(script) : script[i].kind = "assign" /\ script[i].name = v}

\* C18: after parsing, for every mapped call of a chain and every argument
\* that is a bare name bound by one literal assignment of the script, the
\* node made for the call holds the variable's numeric value in the
\* corresponding arg_i parameter.
ParsedArgumentsHoldVariableValues ==
    out.op = "parse_code_to_tree" =>
        \A k \in 1..Len(MappedCalls(code)) :
            \A i \in 1..Len(MappedCalls(code)[k].args) :
                LET arg == MappedCalls(code)[k].args[i]
                    node == tree.nodes[IdSeq[k]]
                IN (arg.kind = "name" /\ Cardinality(LiteralBindings(code, arg.id)) = 1)
                      => \E b \in LiteralBindings(code, arg.id) :
                            /\ i <= Len(node.parameters)
                            /\ node.parameters[i].name = ArgNames[i]
                            /\ node.parameters[i].value = literal_eval(code[b].value)

\* ------------------------- specification of the fillet-and-union scenario
\* The tree WORKPLANE -> BOX -> FILLET with a second BOX and a UNION of the
\* two boxes, its nodes inserted with add_node in any order; the second box
\* stands alone or on the workplane.
UnionNodes ==
    {FeatureNode("wp", "node", "workplane", <<>>, <<>>),
     FeatureNode("box_a", "node", "box", <<>>, <<"wp">>),
     FeatureNode("fillet_a", "node", "fillet", <<>>, <<"box_a">>),
     FeatureNode("box_b", "node", "box", <<>>, <<>>),
     FeatureNode("box_b", "node", "box", <<>>, <<"wp">>),
     FeatureNode("union_ab", "node", "union", <<>>, <<"box_a", "box_b">>)}

UnionIds == {node.id : node \in UnionNodes}

\* tree.add_node(node, parent_id) with the first reference, or None, as parent
UnionAddNode ==
    /\ \E node \in UnionNodes :
          /\ node.id \notin DOMAIN tree.nodes
          /\ \E parent_id \in {None} \cup {node.parent_references[i] :
                                             i \in (1..Len(node.parent_references)) \cap {1}} :
                tree' = add_node(tree, node, parent_id)
    /\ out' = NoOut
    /\ UNCHANGED <<stored, history, last, code, regen>>

NextUnion == UnionAddNode \/ GenGenerate

SpecUnion == InitTree /\ [][NextUnion]_vars

\* the position of the statement emitted for the node; 0 when there is none
StatementOf(lines, id) ==
    LET hits == {i \in 1..Len(lines) : "node" \in DOMAIN lines[i] /\ lines[i].node = id}
    IN IF hits = {} THEN 0 ELSE CHOOSE i \in hits : TRUE

\* the whole scenario tree was handed to the generator
UnionScenarioGenerated ==
    /\ out.op = "generate"
    /\ DOMAIN tree.nodes = UnionIds

\* C19: for the scenario tree, whatever the insertion order, the generated
\* union statement has the variables of the two BOX nodes as its operands
\* and the FILLET statement comes before the UNION statement.
UnionUsesBoxesAndFollowsFillet ==
    UnionScenarioGenerated =>
        LET u == StatementOf(out.lines, "union_ab")
            f == StatementOf(out.lines, "fillet_a")
            a == StatementOf(out.lines, "box_a")
            b == StatementOf(out.lines, "box_b")
        IN /\ u > 0 /\ f > 0 /\ a > 0 /\ b > 0
           /\ out.lines[u].kind = "assign"
           /\ out.lines[u].method = "union"
           /\ out.lines[u].base = VarExpr(out.lines[a].var)
           /\ out.lines[u].other = VarExpr(out.lines[b].var)
           /\ f < u

\* the operand half of C19 alone
UnionUsesBoxes ==
    UnionScenarioGenerated =>
        LET u == StatementOf(out.lines, "union_ab")
            a == StatementOf(out.lines, "box_a")
            b == StatementOf(out.lines, "box_b")
        IN /\ u > 0 /\ a > 0 /\ b > 0
           /\ out.lines[u].kind = "assign"
           /\ out.lines[u].method = "union"
           /\ out.lines[u].base = VarExpr(out.lines[a].var)
           /\ out.lines[u].other = VarExpr(out.lines[b].var)

\* --------------------------------------- routes: update_node and regenerate
\* The persisted tree document of the routes carries, besides the fields of
\* the tree record, generated_code and last_good_artifact_id; a parameter of
\* the design-parameters node carries original_variable_name.  `code` is the
\* code of the latest cad_code artifact.  Both handlers are coroutines of one
\* event loop: update_node never awaits, regenerate_cad_model awaits only
\* while the sandbox task runs, so the steps are the code before that wait,
\* the code after it, and the whole of update_node.
MaxRegenOps == 2

DesignNodeId == "p_design_params"

\* the text of a generated variable name
VarText(var) == IF var.n = 0 THEN var.base ELSE var.base \o "_" \o ToString(var.n)

\* the generated lines read as a script by the patcher: a parameter line is
\* an assignment of a literal, a node or result line an assignment of a call,
\* an "# ERROR" comment is skipped like an import line
ScriptOf(lines) ==
    [i \in 1..Len(lines) |->
        IF lines[i].kind = "param"
        THEN AssignLine(0, VarText(lines[i].var), lines[i].value.value, NoTail)
        ELSE IF lines[i].kind = "assign"
        THEN [kind |-> "call", indent |-> 0, name |-> VarText(lines[i].var)]
        ELSE IF lines[i].kind = "result" THEN CallLine
        ELSE ImportLine]

\* utils.parameter_validation.validate_parameter_changes for numeric values
\* of parameters without a range: the names that do not exist on the node
validate_parameter_changes(node, parameter_changes) ==
    {nm \in DOMAIN parameter_changes :
        \A i \in 1..Len(node.parameters) : node.parameters[i].name # nm}

\* FeatureTreeStorage.update_node_in_tree on the tree it reads: the first
\* parameter of each changed name takes the new value
update_node_in_tree(t, node_id, parameter_changes) ==
    [t EXCEPT !.nodes[node_id].parameters =
        [i \in 1..Len(@) |->
            IF /\ @[i].name \in DOMAIN parameter_changes
               /\ \A j \in 1..(i-1) : @[j].name # @[i].name
            THEN [name |-> @[i].name, value |-> parameter_changes[@[i].name],
                  original_variable_name |-> @[i].original_variable_name]
            ELSE @[i]]]

\* routes.update_node on the persisted tree t
update_node(t, node_id, parameter_changes) ==
    IF node_id \notin DOMAIN t.nodes
    THEN [outcome |-> "404", tree |-> t, logged |-> FALSE]
    ELSE IF validate_parameter_changes(t.nodes[node_id], parameter_changes) # {}
    THEN [outcome |-> "400", tree |-> t, logged |-> FALSE]
    ELSE [outcome |-> "saved", logged |-> TRUE,
          tree |-> [update_node_in_tree(t, node_id, parameter_changes) EXCEPT !.dirty = TRUE]]

\* the design-parameters node regenerate_cad_model finds: the first node
\* whose id or name marks it; None when there is none
FindDesignParamsNode(t) ==
    LET hits == SelectSeq(t.node_keys,
                          LAMBDA id : id \in DesignParamIds
                                      \/ t.nodes[id].name = "Design Parameters")
    IN IF hits = <<>> THEN None ELSE hits[1]

\* the loop of regenerate_cad_model over the design parameters from i on
RECURSIVE ApplyDesignParameters(_, _, _)
ApplyDesignParameters(new_code, parameters, i) ==
    IF i > Len(parameters) THEN new_code
    ELSE ApplyDesignParameters(
            IF parameters[i].original_variable_name # None
            THEN update_parameter_in_code(new_code, parameters[i].original_variable_name,
                                          parameters[i].value)
            ELSE new_code,
            parameters, i+1)

\* the end of regenerate_from_feature_tree: the code it returns and the tree
\* document it saves
SaveRegenerated(t, regenerated_code) ==
    [code |-> regenerated_code,
     tree |-> [t EXCEPT !.generated_code = regenerated_code, !.dirty = FALSE,
                        !.needs_full_regeneration = FALSE]]

\* CADGenerationIntegration.regenerate_from_feature_tree: [code, tree]
regenerate_from_feature_tree(t) ==
    SaveRegenerated(t, ScriptOf(generate_cadquery_code(t).lines))

\* the full-regeneration branch of regenerate_cad_model: regenerated is what
\* regenerate_from_feature_tree returned and saved; the handler keeps the
\* tree it read before
StartedFull(t, regenerated) ==
    [outcome |-> "started", stored |-> regenerated.tree, tree |-> t,
     new_code |-> regenerated.code]

\* routes.regenerate_cad_model up to the start of the sandbox task, for the
\* persisted tree t and the latest cad_code artifact: the outcome, the
\* persisted tree, the handler's own copy of the tree, and the new code
regenerate_cad_model_start(t, current_code) ==
    IF ~t.dirty
    THEN [outcome |-> "up_to_date", stored |-> t, tree |-> t, new_code |-> current_code]
    ELSE IF t.needs_full_regeneration
    THEN StartedFull(t, regenerate_from_feature_tree(t))
    ELSE [outcome |-> "started", stored |-> t, tree |-> t,
          new_code |-> IF FindDesignParamsNode(t) = None THEN current_code
                       ELSE ApplyDesignParameters(current_code,
                                t.nodes[FindDesignParamsNode(t)].parameters, 1)]

\* routes.regenerate_cad_model after the sandbox task: the document saved
regenerate_cad_model_finish(tree_copy, new_code) ==
    [tree_copy EXCEPT !.generated_code = new_code, !.dirty = FALSE,
                      !.needs_full_regeneration = FALSE,
                      !.last_good_artifact_id = "cad_file"]

\* -------------------------------- specification of the regeneration routes
RegenScript == <<ImportLine, AssignLine(0, "radius", Num("5"), NoTail), CallLine>>

RegenValues == {Num("7"), Num("12")}

\* CADGenerationIntegration.generate_cad_with_feature_tree for RegenScript:
\* the parsed nodes, then the design-parameters node put into the dict and
\* at the front of regeneration_order
RegenTree ==
    LET t1 == add_node(add_node(EmptyTree,
                                FeatureNode("n1", "result", "workplane", <<>>, <<>>), None),
                       FeatureNode("n2", "result", "box", <<>>, <<"n1">>), "n1")
        ps == extract_parameters_from_code(RegenScript)
        design_node ==
            FeatureNode(DesignNodeId, "Design Parameters", "sketch",
                        [i \in 1..Len(ps) |->
                            [name |-> ps[i].original_variable_name, value |-> ps[i].value,
                             original_variable_name |-> ps[i].original_variable_name]],
                        <<>>)
        t2 == [DictSet(t1, design_node.id, design_node)
                  EXCEPT !.regeneration_order = <<design_node.id>> \o @]
    IN [nodes |-> t2.nodes, node_keys |-> t2.node_keys,
        regeneration_order |-> t2.regeneration_order, root_node_id |-> t2.root_node_id,
        dirty |-> FALSE, needs_full_regeneration |-> FALSE,
        generated_code |-> RegenScript, last_good_artifact_id |-> None]

RegenCreateTree ==
    /\ stored.node_keys = <<>>
    /\ stored' = RegenTree
    /\ code' = RegenScript
    /\ UNCHANGED <<tree, out, history, last, regen>>

\* PATCH /{project_id}/nodes/{node_id}
RegenUpdateNode ==
    /\ stored.node_keys # <<>>
    /\ Len(history) < MaxRegenOps
    /\ \E node_id \in {DesignNodeId, "n3"} : \E nm \in {"radius", "height"} :
       \E v \in RegenValues :
          LET parameter_changes == [x \in {nm} |-> v]
              r == update_node(stored, node_id, parameter_changes)
          IN /\ stored' = r.tree
             /\ history' = IF r.logged THEN _log_operation(history, "modify", node_id)
                           ELSE history
             /\ last' = [op |-> "update_node", outcome |-> r.outcome, node_id |-> node_id,
                         parameter_changes |-> parameter_changes]
    /\ UNCHANGED <<tree, out, code, regen>>

\* POST /{project_id}/reorder: a structural edit
RegenReorderNodes ==
    /\ stored.node_keys # <<>>
    /\ Len(history) < MaxRegenOps
    /\ LET r == reorder_nodes(stored, stored.regeneration_order)
       IN /\ stored' = r.tree
          /\ history' = _log_operation(history, "reorder", None)
          /\ last' = [op |-> "reorder_nodes", outcome |-> r.outcome]
    /\ UNCHANGED <<tree, out, code, regen>>

\* POST /{project_id}/regenerate, up to the wait for the sandbox task
RegenStart ==
    /\ stored.node_keys # <<>>
    /\ regen.pc = "idle"
    /\ LET r == regenerate_cad_model_start(stored, code)
       IN /\ stored' = r.stored
          /\ code' = r.new_code
          /\ regen' = IF r.outcome = "up_to_date" THEN Idle
                      ELSE [pc |-> "sandbox", tree |-> r.tree, new_code |-> r.new_code]
          /\ last' = [op |-> "regenerate_cad_model", outcome |-> r.outcome]
    /\ UNCHANGED <<tree, out, history>>

\* _sandbox_flow ran the script, stored the cad_file artifact and logged the
\* sandbox operation as a success; the task is done and the handler saves
\* its copy of the tree
RegenFinish ==
    /\ regen.pc = "sandbox"
    /\ stored' = regenerate_cad_model_finish(regen.tree, regen.new_code)
    /\ regen' = Idle
    /\ last' = [op |-> "regenerate_cad_model", outcome |-> "updated"]
    /\ out' = [op |-> "sandbox", status |-> "success"]
    /\ UNCHANGED <<tree, history, code>>

\* _sandbox_flow: run_cadquery failed on every attempt; the flow logs the
\* sandbox operation as an error and returns, so the task is done without an
\* exception and the handler goes on as after a success
RegenSandboxGivesUp ==
    /\ regen.pc = "sandbox"
    /\ stored' = regenerate_cad_model_finish(regen.tree, regen.new_code)
    /\ regen' = Idle
    /\ last' = [op |-> "regenerate_cad_model", outcome |-> "updated"]
    /\ out' = [op |-> "sandbox", status |-> "error"]
    /\ UNCHANGED <<tree, history, code>>

\* the sandbox task raised (an upload or a write of _sandbox_flow failed):
\* the handler answers 500 and saves nothing
RegenSandboxFails ==
    /\ regen.pc = "sandbox"
    /\ regen' = Idle
    /\ last' = [op |-> "regenerate_cad_model", outcome |-> "500"]
    /\ out' = [op |-> "sandbox", status |-> "raised"]
    /\ UNCHANGED <<tree, stored, history, code>>

NextRegen ==
    \/ RegenCreateTree \/ RegenUpdateNode \/ RegenReorderNodes
    \/ RegenStart \/ RegenFinish \/ RegenSandboxGivesUp \/ RegenSandboxFails

SpecRegen == InitTree /\ [][NextRegen]_vars

\* the script assigns the value to the name
CodeHasValue(script, name, v) ==
    \E i \in 1..Len(script) :
        /\ script[i].kind = "assign"
        /\ script[i].name = name
        /\ script[i].tail = NoTail
        /\ literal_eval(script[i].value) = v

\* the persisted tree holds the value for the parameter of the node
TreeHasValue(t, node_id, nm, v) ==
    /\ node_id \in DOMAIN t.nodes
    /\ \E i \in 1..Len(t.nodes[node_id].parameters) :
          /\ t.nodes[node_id].parameters[i].name = nm
          /\ t.nodes[node_id].parameters[i].value = v

\* C20: when update_node committed a parameter change while a regeneration
\* was waiting for its sandbox task, then after the regeneration has finished
\* the persisted tree holds the new value, and it is clean only if its
\* generated code assigns that value.
UpdateDuringRegenerationIsKept ==
    [][(/\ regen.pc = "sandbox" /\ regen'.pc = "idle"
        /\ last.op = "update_node" /\ last.outcome = "saved")
          => \A nm \in DOMAIN last.parameter_changes :
                /\ TreeHasValue(stored', last.node_id, nm, last.parameter_changes[nm])
                /\ (stored'.dirty
                      \/ CodeHasValue(stored'.generated_code, nm, last.parameter_changes[nm]))]_vars

\* ------------------- specification of booleans over surface modifiers
\* A box carrying a fillet and a chamfer stacked on it, a second box, and one
\* boolean node of any of the three types whose operands are a modifier and
\* the second box; the nodes are inserted with add_node in any order.
BoolNodes ==
    {FeatureNode("wp", "node", "workplane", <<>>, <<>>),
     FeatureNode("box_a", "node", "box", <<>>, <<"wp">>),
     FeatureNode("fillet_a", "node", "fillet", <<>>, <<"box_a">>),
     FeatureNode("chamfer_a", "node", "chamfer", <<>>, <<"fillet_a">>),
     FeatureNode("box_b", "node", "box", <<>>, <<"wp">>)}
    \cup {FeatureNode("bool_ab", "node", ft, <<>>, refs) :
            ft \in {"union", "difference", "intersection"},
            refs \in {<<"fillet_a", "box_b">>, <<"chamfer_a", "box_b">>,
                      <<"box_b", "fillet_a">>}}

BoolAddNode ==
    /\ \E node \in BoolNodes :
          /\ node.id \notin DOMAIN tree.nodes
          /\ tree' = add_node(tree, node, None)
    /\ out' = NoOut
    /\ UNCHANGED <<stored, history, last, code, regen>>

NextBoolean == BoolAddNode \/ GenGenerate

SpecBoolean == InitTree /\ [][NextBoolean]_vars

\* the nodes whose statement assigns the variable an operand expression names
OperandNodes(lines, t, e) ==
    IF e.kind \notin {"var", "face"} THEN {}
    ELSE {id \in DOMAIN t.nodes :
            StatementOf(lines, id) > 0 /\ lines[StatementOf(lines, id)].var = e.var}

\* the statement emitted for a boolean node, once every node of the
\* scenario is in the tree
BooleanStatementGenerated ==
    /\ out.op = "generate"
    /\ DOMAIN tree.nodes = {node.id : node \in BoolNodes}
    /\ StatementOf(out.lines, "bool_ab") > 0
    /\ out.lines[StatementOf(out.lines, "bool_ab")].kind = "assign"

\* C21: in the statement emitted for a UNION, DIFFERENCE or INTERSECTION
\* node, no operand is the variable of a FILLET or CHAMFER node.
BooleanOperandsAreVolumetric ==
    BooleanStatementGenerated =>
        LET line == out.lines[StatementOf(out.lines, "bool_ab")]
        IN \A e \in {line.base, line.other} :
              \A id \in OperandNodes(out.lines, tree, e) :
                 tree.nodes[id].feature_type \notin {"fillet", "chamfer"}

\* the part of C21 the code keeps: a UNION or DIFFERENCE whose modifier
\* operand sits directly on a volume uses the volume
BooleanWalksOneModifier ==
    (/\ BooleanStatementGenerated
     /\ tree.nodes["bool_ab"].feature_type \in {"union", "difference"}
     /\ "chamfer_a" \notin Range(tree.nodes["bool_ab"].parent_references))
        => LET line == out.lines[StatementOf(out.lines, "bool_ab")]
           IN \A e \in {line.base, line.other} :
                 \A id \in OperandNodes(out.lines, tree, e) :
                    tree.nodes[id].feature_type \notin {"fillet", "chamfer"}

\* ----------------------------- specification of sketches on sketches
\* A chain of three sketches, the first on a workplane or on nothing, the
\* nodes inserted with add_node in any order.
SketchNodes ==
    {FeatureNode("wp", "node", "workplane", <<>>, <<>>),
     FeatureNode("sketch_a", "node", "sketch", <<>>, <<"wp">>),
     FeatureNode("sketch_a", "node", "sketch", <<>>, <<>>),
     FeatureNode("sketch_b", "node", "sketch", <<>>, <<"sketch_a">>),
     FeatureNode("sketch_c", "node", "sketch", <<>>, <<"sketch_b">>)}

SketchAddNode ==
    /\ \E node \in SketchNodes :
          /\ node.id \notin DOMAIN tree.nodes
          /\ tree' = add_node(tree, node, None)
    /\ out' = NoOut
    /\ UNCHANGED <<stored, history, last, code, regen>>

NextSketch == SketchAddNode \/ GenGenerate

SpecSketch == InitTree /\ [][NextSketch]_vars

\* the nearest WORKPLANE reached from the node by following first parent
\* references through SKETCH nodes; None when the walk ends elsewhere
RECURSIVE NearestWorkplane(_, _, _)
NearestWorkplane(t, id, fuel) ==
    IF fuel = 0 \/ id \notin DOMAIN t.nodes \/ t.nodes[id].parent_references = <<>>
    THEN None
    ELSE LET p == t.nodes[id].parent_references[1]
         IN IF p \notin DOMAIN t.nodes THEN None
            ELSE IF t.nodes[p].feature_type = "workplane" THEN p
            ELSE IF t.nodes[p].feature_type = "sketch" THEN NearestWorkplane(t, p, fuel - 1)
            ELSE None

\* the sketches of a generated tree whose parent is a sketch
SketchesOnSketches ==
    IF out.op # "generate" THEN {}
    ELSE {id \in DOMAIN tree.nodes :
            /\ tree.nodes[id].feature_type = "sketch"
            /\ tree.nodes[id].parent_references # <<>>
            /\ tree.nodes[id].parent_references[1] \in DOMAIN tree.nodes
            /\ tree.nodes[tree.nodes[id].parent_references[1]].feature_type = "sketch"
            /\ StatementOf(out.lines, id) > 0}

\* C22: the statement of a SKETCH whose parent is a SKETCH has as its base
\* the variable of the nearest WORKPLANE ancestor, however many sketches lie
\* between, and a fresh workplane only when there is no such ancestor.
SketchBaseIsNearestWorkplane ==
    \A id \in SketchesOnSketches :
        LET w == NearestWorkplane(tree, id, Cardinality(DOMAIN tree.nodes))
            line == out.lines[StatementOf(out.lines, id)]
        IN /\ line.kind = "assign"
           /\ IF w = None THEN line.base = NewWorkplane
              ELSE /\ StatementOf(out.lines, w) > 0
                   /\ line.base = VarExpr(out.lines[StatementOf(out.lines, w)].var)

\* ------------------------------------------------- the result line (C23)
\* the ids of the nodes with a line in the script, in emission order
Emitted(lines) ==
    LET F[i \in 0..Len(lines)] ==
            IF i = 0 THEN <<>>
            ELSE IF "node" \in DOMAIN lines[i] THEN Append(F[i-1], lines[i].node)
            ELSE F[i-1]
    IN F[Len(lines)]

\* a node no node of the tree references, WORKPLANE excluded
IsLeaf(t, id) ==
    /\ t.nodes[id].feature_type # "workplane"
    /\ \A a \in DOMAIN t.nodes : ~RefEdge(t, a, id)

\* the last element of the sequence whose type is in the first of the groups
\* boolean, surface, volume, primitive that has one
LastOfFirstGroup(seq, t) ==
    LET groups == << {"union", "difference", "intersection"}, {"fillet", "chamfer"},
                     {"extrude", "revolve", "loft", "sweep"},
                     {"box", "cylinder", "sphere", "cone"} >>
        in_group(g) == SelectSeq(seq, LAMBDA id : t.nodes[id].feature_type \in groups[g])
        nonempty == {g \in 1..4 : in_group(g) # <<>>}
    IN IF nonempty = {} THEN None
       ELSE LET g == CHOOSE g \in nonempty : \A h \in nonempty : g <= h
            IN in_group(g)[Len(in_group(g))]

\* the result line names the variable of the node, when the node's statement
\* was emitted and not replaced by an "# ERROR" comment
ResultIs(lines, id) ==
    lines[StatementOf(lines, id)].kind = "assign"
        => lines[Len(lines)].value = VarExpr(lines[StatementOf(lines, id)].var)

\* the emitted nodes in the order of regeneration_order
EmittedInRegenerationOrder(lines, t) ==
    SelectSeq(t.regeneration_order, LAMBDA id : id \in Range(Emitted(lines)))

\* C23 as stated: result is the most recently emitted leaf of the first
\* non-empty priority group, and the last emitted node of any kind when no
\* leaf is in a group.
ResultIsPriorityLeafElseLastEmitted ==
    (out.op = "generate" /\ Emitted(out.lines) # <<>>) =>
        LET leaves == SelectSeq(Emitted(out.lines), LAMBDA id : IsLeaf(tree, id))
        IN IF LastOfFirstGroup(leaves, tree) # None
           THEN ResultIs(out.lines, LastOfFirstGroup(leaves, tree))
           ELSE ResultIs(out.lines, Emitted(out.lines)[Len(Emitted(out.lines))])

\* C23 amended: result is the most recently emitted leaf of the first
\* non-empty priority group; when no leaf is in a group it is the most
\* recently emitted leaf; when there is no leaf at all it is chosen from all
\* emitted nodes taken in regeneration order, by the same groups and
\* otherwise the last of them.
ResultIsPriorityLeafElseLastLeaf ==
    (out.op = "generate" /\ Emitted(out.lines) # <<>>) =>
        LET leaves == SelectSeq(Emitted(out.lines), LAMBDA id : IsLeaf(tree, id))
            all == EmittedInRegenerationOrder(out.lines, tree)
        IN IF LastOfFirstGroup(leaves, tree) # None
           THEN ResultIs(out.lines, LastOfFirstGroup(leaves, tree))
           ELSE IF leaves # <<>> THEN ResultIs(out.lines, leaves[Len(leaves)])
           ELSE IF LastOfFirstGroup(all, tree) # None
           THEN ResultIs(out.lines, LastOfFirstGroup(all, tree))
           ELSE all # <<>> => ResultIs(out.lines, all[Len(all)])

\* a script whose leaves are in no priority group and whose last emitted
\* node is not its last leaf
ResultFallbackWitness ==
    /\ out.op = "generate"
    /\ Emitted(out.lines) # <<>>
    /\ LET leaves == SelectSeq(Emitted(out.lines), LAMBDA id : IsLeaf(tree, id))
       IN /\ leaves # <<>>
          /\ LastOfFirstGroup(leaves, tree) = None
          /\ leaves[Len(leaves)] # Emitted(out.lines)[Len(Emitted(out.lines))]
          /\ out.lines[StatementOf(out.lines, leaves[Len(leaves)])].kind = "assign"

\* ------------------------------- specification of parsed chains (C24)
\* name = base.f1(args).f2(args)...: a chain built on a variable; the base
\* is what _extract_method_chain finds under the first call.  The 'base'
\* entry it returns is read by no other method of the parser.
ChainOnLine(name, base, chain) ==
    [kind |-> "chain", indent |-> 0, name |-> name, chain |-> chain, base |-> base]

ChainLines ==
    {AssignLine(0, "radius", Num("5"), NoTail),
     ChainOnLine("a", NameRef("cq"), <<Call("Workplane", <<Const(Str("XY"))>>),
                                       Call("box", <<Const(Num("1")), Const(Num("2")),
                                                     Const(Num("3"))>>)>>),
     ChainOnLine("a", NameRef("cq"), <<Call("Workplane", <<Const(Str("XY"))>>)>>),
     ChainOnLine("b", NameRef("a"), <<Call("fillet", <<Const(Num("1"))>>)>>),
     ChainOnLine("b", NameRef("a"), <<Call("translate", <<CallArg>>),
                                      Call("chamfer", <<NameRef("radius")>>)>>)}

\* the script grows by one statement, as long as its chains make no more
\* nodes than there are ids
ChainAppendLine ==
    /\ out = NoOut
    /\ Len(code) < MaxLines
    /\ \E line \in ChainLines :
          /\ Len(MappedCalls(Append(code, line))) <= Len(IdSeq)
          /\ code' = Append(code, line)
    /\ UNCHANGED <<tree, out, stored, history, last, regen>>

NextParseChains == ChainAppendLine \/ ParseCodeToTree

SpecParseChains == InitTree /\ [][NextParseChains]_vars

\* the chain statements of a script, in source order
ChainStatements(script) == SelectSeq(script, LAMBDA st : st.kind = "chain")

\* the nodes made for the mapped links of the k-th chain statement, in order
NodesOfChain(script, k) ==
    LET before == Len(MappedCalls(SubSeq(ChainStatements(script), 1, k-1)))
        own == Len(MappedCalls(<<ChainStatements(script)[k]>>))
    IN [j \in 1..own |-> IdSeq[before + j]]

\* every node after the first of a chain references the node before it
ChainLinksReferencePreviousLink ==
    out.op = "parse_code_to_tree" =>
        \A k \in 1..Len(ChainStatements(code)) :
            \A j \in 2..Len(NodesOfChain(code, k)) :
                NodesOfChain(code, k)[j-1]
                    \in Range(tree.nodes[NodesOfChain(code, k)[j]].parent_references)

\* the chain statements before the k-th that bind the variable and made a node
BindersBefore(script, k, v) ==
    {i \in 1..(k-1) : /\ ChainStatements(script)[i].name = v
                      /\ NodesOfChain(script, i) # <<>>}

\* C24: in a parsed tree the node of a chain link references the node of the
\* previous mapped link of its chain, and the node of the first link of a
\* chain built on a variable bound by an earlier chain references the node
\* that variable was last bound to.
ChainNodesReferenceTheirUpstream ==
    /\ ChainLinksReferencePreviousLink
    /\ out.op = "parse_code_to_tree" =>
          \A k \in 1..Len(ChainStatements(code)) :
              LET st == ChainStatements(code)[k]
                  binders == BindersBefore(code, k, st.base.id)
              IN (NodesOfChain(code, k) # <<>> /\ binders # {}) =>
                    LET i == CHOOSE i \in binders : \A h \in binders : h <= i
                        bound == NodesOfChain(code, i)[Len(NodesOfChain(code, i))]
                    IN bound \in Range(tree.nodes[NodesOfChain(code, k)[1]].parent_references)

\* ------------------------- specification of the variable tracker (C25)
\* radius = 5 ; n = cq.Workplane("XY").val() ; w = n * 2 ; h = radius * 2 ;
\* k = h ; d = w + radius
ResolveLines ==
    {AssignLine(0, "radius", Num("5"), NoTail),
     ChainOnLine("n", NameRef("cq"), <<Call("Workplane", <<Const(Str("XY"))>>),
                                       Call("val", <<>>)>>),
     BinOpLine("w", NameRef("n"), "Mult", Const(Num("2"))),
     BinOpLine("h", NameRef("radius"), "Mult", Const(Num("2"))),
     AliasLine("k", "h"),
     BinOpLine("d", NameRef("w"), "Add", NameRef("radius"))}

\* the script grows by one statement; each variable is assigned once
ResolveAppendLine ==
    /\ out = NoOut
    /\ Len(code) < MaxLines
    /\ \E line \in ResolveLines :
          /\ \A i \in 1..Len(code) : code[i].name # line.name
          /\ code' = Append(code, line)
    /\ UNCHANGED <<tree, out, stored, history, last, regen>>

\* parser._build_variable_tracker(analysis) on a fresh parser
BuildVariableTracker ==
    /\ out = NoOut
    /\ out' = [op |-> "_build_variable_tracker",
               variable_tracker |->
                   _build_variable_tracker(_analyze_ast(code, <<>>).assignments, <<>>)]
    /\ UNCHANGED <<tree, stored, history, last, code, regen>>

NextResolve == ResolveAppendLine \/ BuildVariableTracker

SpecResolve == InitTree /\ [][NextResolve]_vars

\* the names an expression reads
NamesOf(node) ==
    IF node.kind = "name" THEN {node.id}
    ELSE IF node.kind = "binop"
    THEN (IF node.left.kind = "name" THEN {node.left.id} ELSE {})
         \cup (IF node.right.kind = "name" THEN {node.right.id} ELSE {})
    ELSE {}

\* the variables of a script that have a value computed from literals alone:
\* a literal assignment, or an expression over names that have one
RECURSIVE ResolvedNames(_, _)
ResolvedNames(script, fuel) ==
    IF fuel = 0 THEN {}
    ELSE LET before == ResolvedNames(script, fuel - 1)
         IN {script[i].name : i \in {j \in 1..Len(script) :
                \/ script[j].kind = "assign"
                \/ /\ script[j].kind \in {"alias", "binop"}
                   /\ NamesOf(ValueNode(script[j])) \subseteq before}}

\* C25: the tracker holds, for a variable assigned an expression, the value
\* of the expression over the tracked values when every name the expression
\* reads is resolved, and otherwise nothing or the default 1.0: a value
\* computed from the placeholder of an unresolved name is never stored.
TrackedValuesComeFromResolvedNames ==
    out.op = "_build_variable_tracker" =>
        \A i \in 1..Len(code) :
            (code[i].kind \in {"alias", "binop"} /\ code[i].name \in DOMAIN out.variable_tracker)
                => IF code[i].name \in ResolvedNames(code, Len(code))
                   THEN out.variable_tracker[code[i].name]
                            = _extract_value(ValueNode(code[i]), out.variable_tracker)
                   ELSE out.variable_tracker[code[i].name] = Num("1.0")

\* ------------------------------------------------- surface operations (C27)
\* the candidate of the last validation is a FILLET or CHAMFER with a fresh
\* id and one parent reference, to an existing volume node nothing depends on
SurfaceOnLeafSolid ==
    /\ out.op = "validate_node_addition"
    /\ out.node.feature_type \in surface_operation_types
    /\ out.node.id \notin DOMAIN out.before.nodes
    /\ Len(out.node.parent_references) = 1
    /\ LET p == out.node.parent_references[1]
       IN /\ p \in DOMAIN out.before.nodes
          /\ out.before.nodes[p].feature_type
                \in {"box", "cylinder", "sphere", "extrude", "revolve"}
          /\ \A a \in DOMAIN out.before.nodes : ~RefEdge(out.before, a, p)

\* C27: validate_node_addition accepts a FILLET or CHAMFER candidate with a
\* fresh id whose single parent reference is an existing BOX, CYLINDER,
\* SPHERE, EXTRUDE or REVOLVE node with no dependents.
SurfaceOnLeafSolidIsAccepted ==
    SurfaceOnLeafSolid => out.errors = <<>>

\* such a candidate is rejected for not affecting the result
SurfaceOnLeafSolidIsRejected ==
    SurfaceOnLeafSolid => HasError(out.errors, "no_result_impact")

\* ------------------------------------- specification of suggestions (C26)
\* FeatureTreeValidator.suggest_valid_additions: the suggested types, in order
suggest_valid_additions(t, target_parent_id) ==
    IF DOMAIN t.nodes = {} THEN <<"workplane">>
    ELSE IF target_parent_id # None /\ target_parent_id \in DOMAIN t.nodes
    THEN LET parent_node == t.nodes[target_parent_id]
             other_solids == {x \in DOMAIN t.nodes :
                                 /\ t.nodes[x].feature_type \in solid_types
                                 /\ x # target_parent_id}
         IN IF parent_node.feature_type = "workplane"
            THEN <<"sketch", "box", "cylinder", "sphere">>
            ELSE IF parent_node.feature_type = "sketch"
            THEN <<"extrude", "revolve">>
            ELSE IF parent_node.feature_type \in solid_types
            THEN <<"sketch", "fillet", "chamfer">>
                 \o (IF other_solids # {} THEN <<"union", "difference">> ELSE <<>>)
            ELSE <<>>
    ELSE <<>>

SuggestTypes == {"workplane", "sketch", "box", "extrude", "fillet", "union", "difference"}

\* tree.add_node(node) with references to nodes added before
SuggestAddNode ==
    /\ out = NoOut
    /\ Len(tree.node_keys) < Len(IdSeq)
    /\ \E ft \in SuggestTypes : \E refs \in SeqsUpTo(DOMAIN tree.nodes, MaxRefs) :
          tree' = add_node(tree, FeatureNode(IdSeq[Len(tree.node_keys) + 1], "node",
                                             ft, <<>>, refs), None)
    /\ UNCHANGED <<out, stored, history, last, code, regen>>

\* feature_tree_validator.suggest_valid_additions(tree, target_parent_id)
SuggestValidAdditions ==
    /\ out = NoOut
    /\ \E target_parent_id \in NodeIds \cup {None} :
          out' = [op |-> "suggest_valid_additions", target_parent_id |-> target_parent_id,
                  suggestions |-> suggest_valid_additions(tree, target_parent_id)]
    /\ UNCHANGED <<tree, stored, history, last, code, regen>>

NextSuggest == SuggestAddNode \/ SuggestValidAdditions

SpecSuggest == InitTree /\ [][NextSuggest]_vars

\* C26: for an existing parent node every suggested type has a valid-parents
\* set that contains the type of the parent.
SuggestionsAreValidChildren ==
    (out.op = "suggest_valid_additions" /\ out.target_parent_id \in DOMAIN tree.nodes)
        => \A k \in 1..Len(out.suggestions) :
              /\ out.suggestions[k] \in DOMAIN valid_parent_types
              /\ tree.nodes[out.target_parent_id].feature_type
                    \in valid_parent_types[out.suggestions[k]]

\* the same for parents that are workplanes, sketches or volume nodes
SuggestionsAreValidChildrenOfVolumes ==
    (/\ out.op = "suggest_valid_additions" /\ out.target_parent_id \in DOMAIN tree.nodes
     /\ tree.nodes[out.target_parent_id].feature_type \notin boolean_operation_types)
        => \A k \in 1..Len(out.suggestions) :
              /\ out.suggestions[k] \in DOMAIN valid_parent_types
              /\ tree.nodes[out.target_parent_id].feature_type
                    \in valid_parent_types[out.suggestions[k]]

\* --------------------------------------- the state flags of the tree (C28)
\* the step clears dirty or needs_full_regeneration of the persisted tree,
\* or changes its last_good_artifact_id
MarksRegenerated ==
    /\ stored.node_keys # <<>>
    /\ \/ stored.dirty /\ ~stored'.dirty
       \/ stored.needs_full_regeneration /\ ~stored'.needs_full_regeneration
       \/ stored'.last_good_artifact_id # stored.last_good_artifact_id

\* the step ends a sandbox task that produced the model
SandboxSucceeded ==
    regen.pc = "sandbox" /\ regen'.pc = "idle" /\ out' = [op |-> "sandbox", status |-> "success"]

\* C28: the persisted tree loses dirty or needs_full_regeneration, or gets a
\* new last_good_artifact_id, only in the step that ends a sandbox run that
\* produced the model; when code generation or the sandbox fails it stays
\* dirty and keeps its last_good_artifact_id.
MarkedRegeneratedOnlyAfterSandboxSuccess ==
    [][MarksRegenerated => SandboxSucceeded]_vars

\* ----------------------------------- specification of tree versions (C29)
\* The collection of one project: stored maps a version number to the
\* document '<project_id>_v<version>', a record of the version, the creator
\* and the remaining fields of the FeatureTree.
MaxVersion == 3

UserIds == {"u1", "u2"}

InitVersions ==
    /\ tree = EmptyTree
    /\ out = NoOut
    /\ stored = <<>>
    /\ history = <<>>
    /\ last = NoOut
    /\ code = <<>>
    /\ regen = Idle

\* the None that get_feature_tree returns
NoFeatureTree == [version |-> 0]

\* FeatureTreeStorage.get_feature_tree: the document of the version, of the
\* latest version when version is falsy (None, written 0 here), or None
get_feature_tree(docs, version) ==
    IF version # 0
    THEN IF version \in DOMAIN docs THEN docs[version] ELSE NoFeatureTree
    ELSE IF DOMAIN docs = {} THEN NoFeatureTree
    ELSE docs[CHOOSE v \in DOMAIN docs : \A w \in DOMAIN docs : w <= v]

\* FeatureTreeStorage.save_feature_tree: document(doc_id).set(doc_data)
save_feature_tree(docs, t) ==
    [v \in (DOMAIN docs) \cup {t.version} |-> IF v = t.version THEN t ELSE docs[v]]

\* FeatureTreeStorage.create_feature_tree
create_feature_tree(docs, user_id) ==
    save_feature_tree(docs, [version |-> 1, created_by |-> user_id, tree |-> EmptyTree])

\* FeatureTreeStorage.create_new_version: [new_tree, docs]
create_new_version(docs, t, user_id) ==
    LET new_tree == [t EXCEPT !.version = @ + 1, !.created_by = user_id]
    IN [new_tree |-> new_tree, docs |-> save_feature_tree(docs, new_tree)]

\* POST /{project_id}/create
VersionCreateTree ==
    /\ DOMAIN stored = {}
    /\ \E user_id \in UserIds : stored' = create_feature_tree(stored, user_id)
    /\ last' = [op |-> "create_feature_tree"]
    /\ UNCHANGED <<tree, out, history, code, regen>>

\* POST /{project_id}/nodes on a version: the node is added to its tree
VersionAddNode ==
    /\ \E version \in 0..MaxVersion :
          LET t == get_feature_tree(stored, version)
          IN /\ t # NoFeatureTree
             /\ Len(t.tree.node_keys) < 2
             /\ stored' = save_feature_tree(stored,
                    [t EXCEPT !.tree = add_node_to_tree(@,
                        FeatureNode(IdSeq[Len(t.tree.node_keys) + 1], "node", "workplane",
                                    <<>>, <<>>), None).tree])
    /\ last' = [op |-> "add_node"]
    /\ UNCHANGED <<tree, out, history, code, regen>>

\* POST /{project_id}/version
VersionCreateNew ==
    /\ \E version \in 0..MaxVersion : \E user_id \in UserIds :
          LET base_tree == get_feature_tree(stored, version)
          IN IF base_tree = NoFeatureTree
             THEN /\ last' = [op |-> "create_new_version", outcome |-> "404"]
                  /\ UNCHANGED stored
             ELSE /\ base_tree.version < MaxVersion
                  /\ LET r == create_new_version(stored, base_tree, user_id)
                     IN /\ stored' = r.docs
                        /\ last' = [op |-> "create_new_version", outcome |-> "created",
                                    version |-> r.new_tree.version]
    /\ UNCHANGED <<tree, out, history, code, regen>>

NextVersions == VersionCreateTree \/ VersionAddNode \/ VersionCreateNew

SpecVersions == InitVersions /\ [][NextVersions]_vars

\* C29: creating a new version from a stored version gives the new tree a
\* version number no document had, and leaves every stored document as it was.
NewVersionOverwritesNothing ==
    [][(last'.op = "create_new_version" /\ last'.outcome = "created")
          => /\ last'.version \notin DOMAIN stored
             /\ \A v \in DOMAIN stored : stored'[v] = stored[v]]_vars

\* the same for a new version made from the latest version
NewVersionOfLatestOverwritesNothing ==
    [][(/\ last'.op = "create_new_version" /\ last'.outcome = "created"
        /\ \A v \in DOMAIN stored : v < last'.version)
          => \A v \in DOMAIN stored : stored'[v] = stored[v]]_vars

\* ---------------------------------- specification of the codegen lock (C30)
\* stored is the document C_META/{project_id}: the codegen lock (its session,
\* and whether now has passed its expiresAt) and cadGenerating.  regen maps
\* the session of each /generate-design request to its position in the
\* handler and whether one of its release calls removed the lock.
Sessions == {"sess_a", "sess_b", "sess_c"}

NoLock == [session |-> None, expired |-> FALSE]

InitLock ==
    /\ tree = EmptyTree
    /\ out = NoOut
    /\ stored = [codegen |-> NoLock, cadGenerating |-> FALSE]
    /\ history = <<>>
    /\ last = NoOut
    /\ code = <<>>
    /\ regen = [s \in Sessions |-> [pc |-> "idle", released |-> FALSE]]

\* _acquire_codegen_lock: [acquired, doc]
_acquire_codegen_lock(doc, session_id) ==
    IF doc.codegen # NoLock /\ ~doc.codegen.expired
    THEN [acquired |-> FALSE, doc |-> doc]
    ELSE [acquired |-> TRUE,
          doc |-> [codegen |-> [session |-> session_id, expired |-> FALSE],
                   cadGenerating |-> TRUE]]

\* _release_codegen_lock with a session id and force = False: [released, doc]
_release_codegen_lock(doc, session_id) ==
    IF doc.codegen = NoLock
    THEN [released |-> TRUE, doc |-> [doc EXCEPT !.cadGenerating = FALSE]]
    ELSE IF doc.codegen.session # session_id
    THEN [released |-> FALSE, doc |-> doc]
    ELSE [released |-> TRUE, doc |-> [codegen |-> NoLock, cadGenerating |-> FALSE]]

\* generate_design_route up to the lock: acquired, or 409
GenerateDesignAcquire(s) ==
    /\ regen[s].pc = "idle"
    /\ LET r == _acquire_codegen_lock(stored, s)
       IN /\ stored' = r.doc
          /\ regen' = [regen EXCEPT ![s].pc = IF r.acquired THEN "acquired" ELSE "refused"]
    /\ last' = [op |-> "_acquire_codegen_lock", session |-> s]
    /\ UNCHANGED <<tree, out, history, code>>

\* the finally block after the 409: scheduled is False, so the handler calls
\* the release with its own session
GenerateDesignRefused(s) ==
    /\ regen[s].pc = "refused"
    /\ LET r == _release_codegen_lock(stored, s)
       IN /\ stored' = r.doc
          /\ regen' = [regen EXCEPT ![s].pc = "failed",
                                    ![s].released = @ \/ (stored.codegen.session = s)]
    /\ last' = [op |-> "_release_codegen_lock", session |-> s, released |->
                   _release_codegen_lock(stored, s).released]
    /\ UNCHANGED <<tree, out, history, code>>

\* a step between the lock and tasks.add_task raises: the finally block
\* releases the lock
GenerateDesignFailsEarly(s) ==
    /\ regen[s].pc = "acquired"
    /\ LET r == _release_codegen_lock(stored, s)
       IN /\ stored' = r.doc
          /\ regen' = [regen EXCEPT ![s].pc = "failed",
                                    ![s].released = @ \/ (stored.codegen.session = s)]
    /\ last' = [op |-> "_release_codegen_lock", session |-> s, released |->
                   _release_codegen_lock(stored, s).released]
    /\ UNCHANGED <<tree, out, history, code>>

\* tasks.add_task(_sandbox_flow, ...); scheduled = True
GenerateDesignSchedules(s) ==
    /\ regen[s].pc = "acquired"
    /\ regen' = [regen EXCEPT ![s].pc = "scheduled"]
    /\ last' = [op |-> "add_task", session |-> s]
    /\ UNCHANGED <<tree, out, stored, history, code>>

\* the handler returns its answer and the background task starts
GenerateDesignReturns(s) ==
    /\ regen[s].pc = "scheduled"
    /\ regen' = [regen EXCEPT ![s].pc = "sandbox"]
    /\ last' = [op |-> "generate_design_route", session |-> s]
    /\ UNCHANGED <<tree, out, stored, history, code>>

\* storage.add_chat_message after tasks.add_task raises: the finally block
\* skips the release because scheduled is True, and the handler answers 500,
\* an answer that carries no background task
GenerateDesignFailsLate(s) ==
    /\ regen[s].pc = "scheduled"
    /\ regen' = [regen EXCEPT ![s].pc = "failed"]
    /\ last' = [op |-> "generate_design_route", session |-> s]
    /\ UNCHANGED <<tree, out, stored, history, code>>

\* _sandbox_flow ends, with or without a model: its finally block releases
SandboxFlowEnds(s) ==
    /\ regen[s].pc = "sandbox"
    /\ LET r == _release_codegen_lock(stored, s)
       IN /\ stored' = r.doc
          /\ regen' = [regen EXCEPT ![s].pc = "done",
                                    ![s].released = @ \/ (stored.codegen.session = s)]
    /\ last' = [op |-> "_release_codegen_lock", session |-> s, released |->
                   _release_codegen_lock(stored, s).released]
    /\ UNCHANGED <<tree, out, history, code>>

\* the clock passes expiresAt of the lock
LockExpires ==
    /\ stored.codegen # NoLock /\ ~stored.codegen.expired
    /\ stored' = [stored EXCEPT !.codegen.expired = TRUE]
    /\ last' = [op |-> "clock"]
    /\ UNCHANGED <<tree, out, history, code, regen>>

SessionStep(s) ==
    \/ GenerateDesignAcquire(s) \/ GenerateDesignRefused(s) \/ GenerateDesignFailsEarly(s)
    \/ GenerateDesignSchedules(s) \/ GenerateDesignReturns(s) \/ GenerateDesignFailsLate(s)
    \/ SandboxFlowEnds(s)

NextLock == (\E s \in Sessions : SessionStep(s)) \/ LockExpires

\* every request that can take a step eventually takes one
SpecLock == InitLock /\ [][NextLock]_vars /\ \A s \in Sessions : WF_vars(SessionStep(s))

\* C30: every codegen lock acquired by /generate-design is eventually
\* released by a release call of the session that acquired it, on every path
\* of the handler and of the background flow, without waiting for the lock
\* to expire.
AcquiredLockIsEventuallyReleased ==
    \A s \in Sessions :
        (stored.codegen.session = s /\ ~stored.codegen.expired)
            ~> (regen[s].released \/ (stored.codegen.session = s /\ stored.codegen.expired))

\* a release call of a session that does not hold the lock leaves it in place
ForeignReleaseKeepsLock ==
    [][(last'.op = "_release_codegen_lock" /\ stored.codegen # NoLock
        /\ stored.codegen.session # last'.session)
          => stored'.codegen = stored.codegen]_vars
====
